---- MODULE Spec2Model ----
(***************************************************************************)
(* Model of the OCR job pipeline of sistema-convenio:                      *)
(*   - JobManager (backend/jobs/job_manager.py): the job table, the result *)
(*     table and the operations that mutate them;                          *)
(*   - the refactored API (backend/main_refactored.py): upload, POST       *)
(*     /process, DELETE /job and the background task that bridges the      *)
(*     ProcessPoolExecutor to the JobManager;                              *)
(*   - pure functions of the services (batch computation, label-anchored   *)
(*     extraction, totals), each exercised by a specification of its own.  *)
(***************************************************************************)
EXTENDS Integers, Sequences, FiniteSets, TLC

VARIABLES
    jobs,       \* JobManager._jobs: job id -> JobMetadata
    results,    \* JobManager._results: job id -> JobResult
    now,        \* datetime.now(), in hours
    ret,        \* outcome of the last JobManager call: what it returned or raised
    nextJob,    \* number of uploads accepted so far (each draws a fresh uuid4)
    files,      \* job ids whose PDF is stored under storage/uploads
    tasks,      \* background tasks added by POST /process, in order of creation
    response,   \* HTTP response of the last API request
    calls,      \* number of calls (Spec) or API requests (SpecApi) made so far
    queue,      \* ProcessPoolExecutor's pending work items (task indexes), FIFO
    batching,   \* frame of a calculate_batches call: arguments, loop variable, result
    totals,     \* frame of a calculate_totals_safe call
    extraction, \* frame of an extract_from_text call
    orchestration, \* frame of the batch orchestrator: process_ocr_job or OCRService.process_pdf
    lock,       \* JobManager._lock: the threads that hold it (none or one)
    threads,    \* the threads that call the JobManager: thread id -> frame of its call
    loop,       \* the event loop's thread: the background tasks running on it (none or one)
    convenio    \* frame of an extract_convenio_data_from_pages call

vars == <<jobs, results, now, ret, nextJob, files, tasks, response, calls, queue,
         batching, totals, extraction, orchestration, lock, threads, loop, convenio>>
svcVars == <<batching, totals, extraction, orchestration, convenio>>
mgrVars == <<jobs, results, ret>>
apiVars == <<nextJob, files, tasks, response, queue>>
thrVars == <<lock, threads>>

\* ---------------------------------------------------------------- bounds
MaxJobs == 2
MaxClock == 1
MaxPages == 1
MaxUploads == 1
MaxTasks == 2
MaxCalls == 4
MaxRequests == 3

JobIds == 1..MaxJobs
Pages == 0..MaxPages

\* ---------------------------------------------------------------- models.py
PENDING == "pending"
PROCESSING == "processing"
DONE == "done"
ERROR == "error"
CANCELLED == "cancelled"
JobStatus == {PENDING, PROCESSING, DONE, ERROR, CANCELLED}
Terminal == {DONE, ERROR, CANCELLED}

\* Python's None for an Optional[int] / Optional[datetime] field
None == -1
\* Python's None for an Optional[str] field
NoneStr == "None"
\* Python's None where an object (JobMetadata, JobResult) is expected
NoneObj == [none |-> TRUE]

JobMetadata(job_id, created_at) ==
    [ job_id          |-> job_id,
      status          |-> PENDING,
      created_at      |-> created_at,
      started_at      |-> None,
      completed_at    |-> None,
      total_pages     |-> None,
      processed_pages |-> 0,
      error_message   |-> NoneStr ]

JobResult(job_id, status, total_pages, records_found, items, error_message) ==
    [ job_id        |-> job_id,
      status        |-> status,
      total_pages   |-> total_pages,
      records_found |-> records_found,
      items         |-> items,
      error_message |-> error_message ]

\* ---------------------------------------------------------------- job_manager.py
Returned(op, job_id) == [op |-> op, job_id |-> job_id, raised |-> FALSE]
Raised(op, job_id) == [op |-> op, job_id |-> job_id, raised |-> TRUE]

Put(f, k, v) == [x \in DOMAIN f \cup {k} |-> IF x = k THEN v ELSE f[x]]
Drop(f, ks) == [x \in DOMAIN f \ ks |-> f[x]]

\* a create_job that stores the new metadata without looking the id up first
create_job_overwrite(job_id) ==
    /\ jobs' = Put(jobs, job_id, JobMetadata(job_id, now))
    /\ ret' = Returned("create_job", job_id)
    /\ UNCHANGED results

create_job(job_id) ==
    IF job_id \in DOMAIN jobs
    THEN /\ ret' = Raised("create_job", job_id)
         /\ UNCHANGED <<jobs, results>>
    ELSE /\ jobs' = Put(jobs, job_id, JobMetadata(job_id, now))
         /\ ret' = Returned("create_job", job_id)
         /\ UNCHANGED results

start_job(job_id, total_pages) ==
    IF job_id \notin DOMAIN jobs
    THEN /\ ret' = Raised("start_job", job_id)
         /\ UNCHANGED <<jobs, results>>
    ELSE /\ jobs' = [jobs EXCEPT ![job_id] =
                        [@ EXCEPT !.status = PROCESSING,
                                  !.started_at = now,
                                  !.total_pages = total_pages]]
         /\ ret' = Returned("start_job", job_id)
         /\ UNCHANGED results

update_progress(job_id, processed_pages) ==
    IF job_id \notin DOMAIN jobs
    THEN /\ ret' = Returned("update_progress", job_id)
         /\ UNCHANGED <<jobs, results>>
    ELSE /\ jobs' = [jobs EXCEPT ![job_id].processed_pages = processed_pages]
         /\ ret' = Returned("update_progress", job_id)
         /\ UNCHANGED results

complete_job(job_id, result) ==
    IF job_id \notin DOMAIN jobs
    THEN /\ ret' = Raised("complete_job", job_id)
         /\ UNCHANGED <<jobs, results>>
    ELSE /\ jobs' = [jobs EXCEPT ![job_id] =
                        [@ EXCEPT !.status = DONE,
                                  !.completed_at = now]]
         /\ results' = Put(results, job_id, result)
         /\ ret' = Returned("complete_job", job_id)

fail_job(job_id, error_message) ==
    IF job_id \notin DOMAIN jobs
    THEN /\ ret' = Returned("fail_job", job_id)
         /\ UNCHANGED <<jobs, results>>
    ELSE /\ jobs' = [jobs EXCEPT ![job_id] =
                        [@ EXCEPT !.status = ERROR,
                                  !.completed_at = now,
                                  !.error_message = error_message]]
         /\ ret' = Returned("fail_job", job_id)
         /\ UNCHANGED results

cancel_job(job_id) ==
    IF job_id \notin DOMAIN jobs
    THEN /\ ret' = Returned("cancel_job", job_id)
         /\ UNCHANGED <<jobs, results>>
    ELSE /\ jobs' = [jobs EXCEPT ![job_id] =
                        [@ EXCEPT !.status = CANCELLED,
                                  !.completed_at = now]]
         /\ ret' = Returned("cancel_job", job_id)
         /\ UNCHANGED results

get_job(job_id) == IF job_id \in DOMAIN jobs THEN jobs[job_id] ELSE NoneObj

get_result(job_id) == IF job_id \in DOMAIN results THEN results[job_id] ELSE NoneObj

\* round(x, 2) of x = num / den * 100, in hundredths (ties to even)
\* a percentage cut off after two decimals instead of rounded
trunc2(num, den) == (num * 10000) \div den

round2(num, den) ==
    LET q == (num * 10000) \div den
        r == (num * 10000) % den
    IN IF 2 * r > den THEN q + 1
       ELSE IF 2 * r = den THEN q + (q % 2)
       ELSE q

message_map(job) ==
    CASE job.status = PENDING -> <<"Aguardando processamento">>
      [] job.status = PROCESSING -> <<"Processando pagina", job.processed_pages, job.total_pages>>
      [] job.status = DONE -> <<"Processamento concluido">>
      [] job.status = ERROR -> <<"Erro: ", job.error_message>>
      [] job.status = CANCELLED -> <<"Processamento cancelado">>

\* the JobProgress built under the lock; progress_percent in hundredths of a percent
JobProgress(job) ==
    [ job_id           |-> job.job_id,
      status           |-> job.status,
      progress_percent |-> IF job.total_pages # None /\ job.total_pages > 0
                           THEN round2(job.processed_pages, job.total_pages)
                           ELSE 0,
      total_pages      |-> job.total_pages,
      processed_pages  |-> job.processed_pages,
      message          |-> message_map(job) ]

get_progress(job_id) ==
    IF job_id \in DOMAIN jobs THEN JobProgress(jobs[job_id]) ELSE NoneObj

\* a sweep that looks at the age only
to_remove_any_status(max_age_hours) ==
    { j \in DOMAIN jobs : now - jobs[j].created_at > max_age_hours }

to_remove(max_age_hours) ==
    { j \in DOMAIN jobs : /\ jobs[j].status \in {DONE, ERROR, CANCELLED}
                          /\ now - jobs[j].created_at > max_age_hours }

cleanup_old_jobs(max_age_hours) ==
    /\ jobs' = Drop(jobs, to_remove(max_age_hours))
    /\ results' = Drop(results, to_remove(max_age_hours))
    /\ ret' = Returned("cleanup_old_jobs", None)

\* the wall clock advances between calls
Tick ==
    /\ now < MaxClock
    /\ now' = now + 1
    /\ UNCHANGED <<jobs, results, ret, nextJob, files, tasks, response, calls, queue>>
    /\ UNCHANGED svcVars
    /\ UNCHANGED <<lock, threads, loop>>

\* ------------------------------------------- JobManager under arbitrary callers
ErrorMessages == {"Erro desconhecido", "Nenhum dado"}

\* results a caller may hand to complete_job
ResultsFor(job_id) ==
    { JobResult(job_id, DONE, n, 1, <<1>>, NoneStr) : n \in {MaxPages} }

\* one more call by a direct caller of the JobManager; nothing of the API moves
Called ==
    /\ calls < MaxCalls
    /\ calls' = calls + 1
    /\ UNCHANGED <<now, nextJob, files, tasks, response, queue>>
    /\ UNCHANGED svcVars
    /\ UNCHANGED <<lock, threads, loop>>

CreateJob ==
    /\ \E j \in JobIds : create_job(j)
    /\ Called

StartJob ==
    /\ \E j \in JobIds, n \in Pages : start_job(j, n)
    /\ Called

UpdateProgress ==
    /\ \E j \in JobIds, n \in Pages : update_progress(j, n)
    /\ Called

CompleteJob ==
    /\ \E j \in JobIds : \E r \in ResultsFor(j) : complete_job(j, r)
    /\ Called

FailJob ==
    /\ \E j \in JobIds, m \in ErrorMessages : fail_job(j, m)
    /\ Called

CancelJob ==
    /\ \E j \in JobIds : cancel_job(j)
    /\ Called

CleanupOldJobs ==
    /\ \E h \in 0..MaxClock : cleanup_old_jobs(h)
    /\ Called

\* no call of the function is in progress
NoFrame == [pc |-> "idle"]

NoCall == [op |-> "none", job_id |-> None, raised |-> FALSE]
NoResponse == [endpoint |-> "none", job_id |-> None, code |-> 0]

Init ==
    /\ jobs = <<>>
    /\ results = <<>>
    /\ now = 0
    /\ ret = NoCall
    /\ nextJob = 0
    /\ files = {}
    /\ tasks = <<>>
    /\ response = NoResponse
    /\ calls = 0
    /\ queue = <<>>
    /\ lock = {}
    /\ threads = <<>>
    /\ loop = {}
    /\ batching = NoFrame
    /\ totals = NoFrame
    /\ extraction = NoFrame
    /\ orchestration = NoFrame
    /\ convenio = NoFrame

Next ==
    \/ CreateJob
    \/ StartJob
    \/ UpdateProgress
    \/ CompleteJob
    \/ FailJob
    \/ CancelJob
    \/ CleanupOldJobs
    \/ Tick

Spec == Init /\ [][Next]_vars

\* ------------------------------------------- JobManager polled for progress
MaxProgressPages == 25

\* a call that moves nothing but the JobManager
DirectCall ==
    /\ UNCHANGED <<now, nextJob, files, tasks, response, calls, queue>>
    /\ UNCHANGED svcVars
    /\ UNCHANGED <<lock, threads, loop>>

ProgressCreate ==
    /\ \E j \in JobIds : create_job(j)
    /\ DirectCall

ProgressStart ==
    /\ \E j \in JobIds, n \in 0..MaxProgressPages : start_job(j, n)
    /\ DirectCall

ProgressUpdate ==
    /\ \E j \in JobIds, n \in 0..MaxProgressPages : update_progress(j, n)
    /\ DirectCall

\* progress = job_manager.get_progress(job_id): the snapshot, or None
GetProgress ==
    /\ \E j \in JobIds :
          ret' = [op |-> "get_progress", job_id |-> j, raised |-> FALSE,
                  value |-> get_progress(j)]
    /\ UNCHANGED <<jobs, results>>
    /\ DirectCall

\* one job is ever created: the other id stays unknown
InitProgress == Init

NextProgress ==
    \/ ProgressCreate /\ jobs = <<>>
    \/ ProgressStart
    \/ ProgressUpdate
    \/ GetProgress

SpecProgress == InitProgress /\ [][NextProgress]_vars

\* ---------------------------------------------------------------- main_refactored.py
max_workers == 2

Response(endpoint, job_id, code) == [endpoint |-> endpoint, job_id |-> job_id, code |-> code]

NoOutcome == [raised |-> FALSE, result |-> NoneObj, error |-> NoneStr]

\* a background task of POST /process: where run_ocr_in_background stands
\*   "added"     registered with BackgroundTasks, coroutine not started yet
\*   "submitted" run_in_executor called, work item waits in the pool's queue
\*   "running"   a pool process executes process_ocr_job
\*   "finished"  the future is resolved, the coroutine has not resumed yet
\*   "handled"   the coroutine applied the outcome to the JobManager
Task(job_id) == [job |-> job_id, pc |-> "added", outcome |-> NoOutcome]

\* POST /upload: the validations reject with 400 / 413 before anything is stored
upload_pdf(valid) ==
    IF ~valid
    THEN /\ response' = Response("upload", None, 400)
         /\ UNCHANGED <<jobs, results, ret, nextJob, files, tasks>>
    ELSE /\ nextJob < MaxUploads
         /\ nextJob' = nextJob + 1
         /\ files' = files \cup {nextJob + 1}
         /\ create_job(nextJob + 1)
         /\ response' = Response("upload", nextJob + 1, 200)
         /\ UNCHANGED tasks

\* POST /process/{job_id}
process_pdf(job_id) ==
    /\ UNCHANGED <<jobs, results, ret, nextJob, files>>
    /\ IF get_job(job_id) = NoneObj
       THEN /\ response' = Response("process", job_id, 404)
            /\ UNCHANGED tasks
       ELSE IF get_job(job_id).status # PENDING
       THEN /\ response' = Response("process", job_id, 400)
            /\ UNCHANGED tasks
       ELSE IF job_id \notin files
       THEN /\ response' = Response("process", job_id, 404)
            /\ UNCHANGED tasks
       ELSE /\ Len(tasks) < MaxTasks
            /\ tasks' = Append(tasks, Task(job_id))
            /\ response' = Response("process", job_id, 200)

\* GET /status/{job_id}
get_status(job_id) ==
    /\ UNCHANGED <<jobs, results, ret, nextJob, files, tasks>>
    /\ IF get_progress(job_id) = NoneObj
       THEN response' = Response("status", job_id, 404)
       ELSE response' = Response("status", job_id, 200)

\* GET /result/{job_id}
get_result_endpoint(job_id) ==
    /\ UNCHANGED <<jobs, results, ret, nextJob, files, tasks>>
    /\ IF get_job(job_id) = NoneObj
       THEN response' = Response("result", job_id, 404)
       ELSE IF get_job(job_id).status = PROCESSING
       THEN response' = Response("result", job_id, 425)
       ELSE IF get_job(job_id).status = PENDING
       THEN response' = Response("result", job_id, 400)
       ELSE IF get_job(job_id).status = ERROR
       THEN response' = Response("result", job_id, 500)
       ELSE IF get_job(job_id).status = CANCELLED
       THEN response' = Response("result", job_id, 410)
       ELSE IF get_result(job_id) = NoneObj
       THEN response' = Response("result", job_id, 404)
       ELSE response' = Response("result", job_id, 200)

\* ExcelExporter: `if not data: raise ValueError("Nenhum dado para exportar")`,
\* else the workbook of the records, saved to a file or to bytes
export_to_file(data) ==
    IF data = <<>> THEN [raised |-> TRUE, rows |-> 0]
    ELSE [raised |-> FALSE, rows |-> Len(data)]

export_to_bytes(data) ==
    IF data = <<>> THEN [raised |-> TRUE, rows |-> 0]
    ELSE [raised |-> FALSE, rows |-> Len(data)]

\* GET /export/{job_id}: 200 is the file built from result.items, 500 the
\* exporter's exception turned into an HTTPException
export_excel(job_id) ==
    /\ UNCHANGED <<jobs, results, ret, nextJob, files, tasks>>
    /\ IF get_result(job_id) = NoneObj
       THEN response' = Response("export", job_id, 404)
       ELSE IF get_result(job_id).status # DONE
       THEN response' = Response("export", job_id, 404)
       ELSE IF export_to_file(get_result(job_id).items).raised
       THEN response' = Response("export", job_id, 500)
       ELSE response' = Response("export", job_id, 200)

\* DELETE /job/{job_id} without the test of the status: every known job is cancelled
cancel_job_endpoint_unguarded(job_id) ==
    /\ UNCHANGED <<nextJob, files, tasks>>
    /\ IF get_job(job_id) = NoneObj
       THEN /\ response' = Response("cancel", job_id, 404)
            /\ UNCHANGED <<jobs, results, ret>>
       ELSE /\ cancel_job(job_id)
            /\ response' = Response("cancel", job_id, 200)

\* DELETE /job/{job_id}
cancel_job_endpoint(job_id) ==
    /\ UNCHANGED <<nextJob, files, tasks>>
    /\ IF get_job(job_id) = NoneObj
       THEN /\ response' = Response("cancel", job_id, 404)
            /\ UNCHANGED <<jobs, results, ret>>
       ELSE IF get_job(job_id).status \in {DONE, ERROR}
       THEN /\ response' = Response("cancel", job_id, 400)
            /\ UNCHANGED <<jobs, results, ret>>
       ELSE /\ cancel_job(job_id)
            /\ response' = Response("cancel", job_id, 200)

\* run_ocr_in_background calling process_ocr_job itself instead of handing it to
\* the executor: the coroutine keeps the event loop's thread while OCR runs
run_ocr_submit_inline(t) ==
    /\ tasks[t].pc = "added"
    /\ loop = {}
    /\ tasks' = [tasks EXCEPT ![t].pc = "running"]
    /\ loop' = {t}
    /\ UNCHANGED <<jobs, results, ret, nextJob, files, response, queue>>

\* run_ocr_in_background up to its await: the work item enters the pool's queue
\* and the coroutine gives the event loop back
run_ocr_submit(t) ==
    /\ tasks[t].pc = "added"
    /\ loop = {}
    /\ tasks' = [tasks EXCEPT ![t].pc = "submitted"]
    /\ queue' = Append(queue, t)
    /\ UNCHANGED <<jobs, results, ret, nextJob, files, response, loop>>

Running == {t \in DOMAIN tasks : tasks[t].pc = "running"}

\* a pool that starts a process for every work item
pool_take_unbounded ==
    /\ queue # <<>>
    /\ tasks' = [tasks EXCEPT ![Head(queue)].pc = "running"]
    /\ queue' = Tail(queue)
    /\ UNCHANGED <<jobs, results, ret, nextJob, files, response, loop>>

\* a free process of the pool takes the oldest work item
pool_take ==
    /\ queue # <<>>
    /\ Cardinality(Running) < max_workers
    /\ tasks' = [tasks EXCEPT ![Head(queue)].pc = "running"]
    /\ queue' = Tail(queue)
    /\ UNCHANGED <<jobs, results, ret, nextJob, files, response, loop>>

\* str(e) of a fatal error of process_ocr_job, possibly empty
WorkerErrors == {"Erro ao ler PDF", ""}

\* the records extract_multiple_records may hand back
MaxRecords == 2
Records == { [i \in 1..n |-> i] : n \in 0..MaxRecords }

\* a worker that returns a DONE result whatever was extracted
JobResultOfAny(job_id, total_pages, relevant_pages, extracted_data) ==
    JobResult(job_id, DONE, total_pages, Len(extracted_data), extracted_data, NoneStr)

\* steps 4 to 6 of process_ocr_job: no relevant page, no record, or the result
JobResultOf(job_id, total_pages, relevant_pages, extracted_data) ==
    IF relevant_pages = 0
    THEN JobResult(job_id, ERROR, total_pages, 0, <<>>,
                   "Nenhuma pagina relevante encontrada no documento")
    ELSE IF extracted_data = <<>>
    THEN JobResult(job_id, ERROR, total_pages, 0, <<>>,
                   "Nenhum dado bancario encontrado")
    ELSE JobResult(job_id, DONE, total_pages, Len(extracted_data), extracted_data, NoneStr)
\* what the awaited future raises when the pool process is lost
PoolErrors == {"BrokenProcessPool"}

\* what process_ocr_job hands back for a job: the result of steps 4 to 6 or the
\* ERROR result of a fatal error; or what the awaited future raises
Outcomes(job_id) ==
    { [raised |-> FALSE, result |-> JobResultOf(job_id, MaxPages, n, d), error |-> NoneStr]
         : n \in 0..MaxPages, d \in Records }
    \* except Exception: the fatal error of the worker, str(e) possibly empty
    \cup { [raised |-> FALSE, result |-> JobResult(job_id, ERROR, 0, 0, <<>>, m), error |-> NoneStr]
             : m \in WorkerErrors }
    \cup { [raised |-> TRUE, result |-> NoneObj, error |-> m] : m \in PoolErrors }

\* process_ocr_job in the pool process: it shares nothing with the JobManager of
\* the API process (callback_update is None), so only its outcome is visible
process_ocr_job(t) ==
    /\ tasks[t].pc = "running"
    /\ \E o \in Outcomes(tasks[t].job) :
          tasks' = [tasks EXCEPT ![t].pc = "finished", ![t].outcome = o]
    /\ UNCHANGED <<jobs, results, ret, nextJob, files, response, queue, loop>>

\* result.error_message or "Erro desconhecido"
OrUnknown(m) == IF m = NoneStr \/ m = "" THEN "Erro desconhecido" ELSE m

\* run_ocr_in_background without its except clause: an exception of the awaited
\* future is lost and the job is left as it is
run_ocr_resume_no_except(t) ==
    /\ tasks[t].pc = "finished"
    /\ loop = {}
    /\ tasks' = [tasks EXCEPT ![t].pc = "handled"]
    /\ UNCHANGED <<nextJob, files, response, queue, loop>>
    /\ LET job_id == tasks[t].job
           o == tasks[t].outcome
       IN IF o.raised
          THEN UNCHANGED <<jobs, results, ret>>
          ELSE IF o.result.status = DONE
          THEN IF job_id \in DOMAIN jobs
               THEN complete_job(job_id, o.result)
               ELSE UNCHANGED <<jobs, results, ret>>
          ELSE fail_job(job_id, OrUnknown(o.result.error_message))

\* run_ocr_in_background after its await
run_ocr_resume(t) ==
    /\ tasks[t].pc = "finished"
    /\ loop = {}
    /\ tasks' = [tasks EXCEPT ![t].pc = "handled"]
    /\ UNCHANGED <<nextJob, files, response, queue, loop>>
    /\ LET job_id == tasks[t].job
           o == tasks[t].outcome
       IN IF o.raised
          THEN fail_job(job_id, o.error)
          ELSE IF o.result.status = DONE
          THEN IF job_id \in DOMAIN jobs
               THEN complete_job(job_id, o.result)
               \* complete_job raised ValueError: the except branch calls fail_job
               ELSE fail_job(job_id, "Job nao encontrado")
          ELSE fail_job(job_id, OrUnknown(o.result.error_message))

\* a step of the event loop or of the pool: no client request is involved
Internal == UNCHANGED <<now, calls, batching, totals, extraction, orchestration, lock, threads, convenio>>

\* one more request by a client of the API: its handler is a coroutine without
\* await, run by the event loop when no other coroutine runs
Requested ==
    /\ calls < MaxRequests
    /\ loop = {}
    /\ calls' = calls + 1
    /\ UNCHANGED <<now, queue>>
    /\ UNCHANGED svcVars
    /\ UNCHANGED <<lock, threads, loop>>

UploadPdf ==
    /\ \E valid \in BOOLEAN : upload_pdf(valid)
    /\ Requested

ProcessPdf ==
    /\ \E j \in JobIds : process_pdf(j)
    /\ Requested

GetStatus ==
    /\ \E j \in JobIds : get_status(j)
    /\ Requested

GetResult ==
    /\ \E j \in JobIds : get_result_endpoint(j)
    /\ Requested

ExportExcel ==
    /\ \E j \in JobIds : export_excel(j)
    /\ Requested

CancelJobEndpoint ==
    /\ \E j \in JobIds : cancel_job_endpoint(j)
    /\ Requested

RunOcrSubmit ==
    /\ \E t \in DOMAIN tasks : run_ocr_submit(t)
    /\ Internal

PoolTake ==
    /\ pool_take
    /\ Internal

ProcessOcrJob ==
    /\ \E t \in DOMAIN tasks : process_ocr_job(t)
    /\ Internal

RunOcrResume ==
    /\ \E t \in DOMAIN tasks : run_ocr_resume(t)
    /\ Internal

\* a maintenance caller sweeping the job table of the API process
Sweep ==
    /\ \E h \in 0..MaxClock : cleanup_old_jobs(h)
    /\ UNCHANGED <<nextJob, files, tasks, response>>
    /\ Requested

NextApi ==
    \/ UploadPdf
    \/ ProcessPdf
    \/ GetStatus
    \/ GetResult
    \/ ExportExcel
    \/ CancelJobEndpoint
    \/ RunOcrSubmit
    \/ PoolTake
    \/ ProcessOcrJob
    \/ RunOcrResume
    \/ Sweep
    \/ Tick

SpecApi == Init /\ [][NextApi]_vars

\* the event loop runs every ready coroutine and the pool runs every work item
SpecApiFair ==
    /\ SpecApi
    /\ \A t \in 1..MaxTasks :
          /\ WF_vars(t \in DOMAIN tasks /\ run_ocr_submit(t) /\ Internal)
          /\ WF_vars(t \in DOMAIN tasks /\ process_ocr_job(t) /\ Internal)
          /\ WF_vars(t \in DOMAIN tasks /\ run_ocr_resume(t) /\ Internal)
    /\ WF_vars(PoolTake)

\* ------------------------------------------- the pool under many dispatched jobs
MaxDispatched == 3

\* the state after k uploads, each followed by its POST /process: k PENDING
\* jobs, their files, and one background task per job, none started yet
InitPool ==
    /\ \E k \in 0..MaxDispatched :
          /\ jobs = [j \in 1..k |-> JobMetadata(j, 0)]
          /\ files = 1..k
          /\ nextJob = k
          /\ tasks = [t \in 1..k |-> Task(t)]
          /\ calls = 2 * k
          /\ ret = IF k = 0 THEN NoCall ELSE Returned("create_job", k)
          /\ response = IF k = 0 THEN NoResponse ELSE Response("process", k, 200)
    /\ results = <<>>
    /\ now = 0
    /\ queue = <<>>
    /\ lock = {}
    /\ threads = <<>>
    /\ loop = {}
    /\ batching = NoFrame
    /\ totals = NoFrame
    /\ extraction = NoFrame
    /\ orchestration = NoFrame
    /\ convenio = NoFrame

NextPool ==
    \/ RunOcrSubmit
    \/ PoolTake
    \/ ProcessOcrJob
    \/ RunOcrResume

SpecPool == InitPool /\ [][NextPool]_vars

\* ---------------------------------------------------------------- pdf_service.py
MaxTotalPages == 25
MaxBatchSize == 10

Min(a, b) == IF a <= b THEN a ELSE b

\* the last page of the batch that starts at `start`, without the clamp to the document
batch_end_unclamped(start, batch_size, total_pages) == start + batch_size - 1

batch_end(start, batch_size, total_pages) == Min(start + batch_size - 1, total_pages)

\* one iteration of `for start in range(1, total_pages + 1, batch_size)`, or the return
calculate_batches ==
    /\ batching.pc = "loop"
    /\ IF batching.start < batching.total_pages + 1
       THEN batching' =
               [batching EXCEPT
                  !.batches = Append(@, <<batching.start,
                                          batch_end(batching.start, batching.batch_size,
                                                    batching.total_pages)>>),
                  !.start = @ + batching.batch_size]
       ELSE batching' = [batching EXCEPT !.pc = "done"]
    /\ UNCHANGED <<jobs, results, now, ret, nextJob, files, tasks, response, calls, queue, lock, threads, loop>>
    /\ UNCHANGED <<totals, extraction, orchestration, convenio>>

IdleApi ==
    /\ jobs = <<>>
    /\ results = <<>>
    /\ now = 0
    /\ ret = NoCall
    /\ nextJob = 0
    /\ files = {}
    /\ tasks = <<>>
    /\ response = NoResponse
    /\ calls = 0
    /\ queue = <<>>
    /\ lock = {}
    /\ threads = <<>>
    /\ loop = {}

InitBatches ==
    /\ IdleApi
    /\ batching \in { [pc |-> "loop", total_pages |-> n, batch_size |-> b,
                       start |-> 1, batches |-> <<>>]
                        : n \in 0..MaxTotalPages, b \in 1..MaxBatchSize }
    /\ totals = NoFrame
    /\ extraction = NoFrame
    /\ orchestration = NoFrame
    /\ convenio = NoFrame

NextBatches == calculate_batches

SpecBatches == InitBatches /\ [][NextBatches]_vars

\* ---------------------------------------------------------------- financial_label_extractor.py
VALOR_MAX_RAZOAVEL == 1000000000

MaxValores == 2

\* ---- floats
\* A float is modelled by the decimal numeral it is nearest to: its whole
\* units, its fraction digits (without trailing zeros) and its sign.  The
\* amounts of the model have at most 12 significant digits, fewer than the 15
\* a double holds, and their sums are taken exactly.
DigitValue(c) == CHOOSE n \in 0..9 : <<"0", "1", "2", "3", "4", "5", "6", "7", "8", "9">>[n + 1] = c

\* the decimal digits of a natural number
RECURSIVE DigitsOf(_)
DigitsOf(n) ==
    IF n < 10 THEN << <<"0", "1", "2", "3", "4", "5", "6", "7", "8", "9">>[n + 1] >>
    ELSE Append(DigitsOf(n \div 10), <<"0", "1", "2", "3", "4", "5", "6", "7", "8", "9">>[(n % 10) + 1])

\* the natural number of a digit string
RECURSIVE NatOf(_)
NatOf(s) ==
    IF s = <<>> THEN 0 ELSE NatOf(SubSeq(s, 1, Len(s) - 1)) * 10 + DigitValue(s[Len(s)])

RECURSIVE RStripZeros(_)
RStripZeros(s) ==
    IF s # <<>> /\ s[Len(s)] = "0" THEN RStripZeros(SubSeq(s, 1, Len(s) - 1)) ELSE s

PadRight(s, w) == s \o [k \in 1..(w - Len(s)) |-> "0"]
PadLeft(s, w) == [k \in 1..(w - Len(s)) |-> "0"] \o s

RECURSIVE Pow10(_)
Pow10(w) == IF w = 0 THEN 1 ELSE 10 * Pow10(w - 1)

Float(units, frac) == [units |-> units, frac |-> RStripZeros(frac), neg |-> FALSE]

\* the float 0.0
FloatZero == Float(0, <<>>)

\* the fractions of a and b as integers of the same number of digits
FracWidth(a, b) == IF Len(a.frac) > Len(b.frac) THEN Len(a.frac) ELSE Len(b.frac)
FracOf(a, w) == NatOf(PadRight(a.frac, w))
FracDigits(f, w) == IF w = 0 THEN <<>> ELSE PadLeft(DigitsOf(f), w)

\* a < b, a + b and a - b for floats a, b >= 0
FloatLess(a, b) ==
    \/ a.units < b.units
    \/ a.units = b.units /\ FracOf(a, FracWidth(a, b)) < FracOf(b, FracWidth(a, b))

FloatAdd(a, b) ==
    LET w == FracWidth(a, b)
        f == FracOf(a, w) + FracOf(b, w)
    IN Float(a.units + b.units + (f \div Pow10(w)), FracDigits(f % Pow10(w), w))

FloatSub(a, b) ==
    LET w == FracWidth(a, b)
        hi == IF FloatLess(a, b) THEN b ELSE a
        lo == IF FloatLess(a, b) THEN a ELSE b
        f == FracOf(hi, w) - FracOf(lo, w)
        d == IF f < 0
             THEN Float(hi.units - lo.units - 1, FracDigits(f + Pow10(w), w))
             ELSE Float(hi.units - lo.units, FracDigits(f, w))
    IN [d EXCEPT !.neg = FloatLess(a, b)]

\* x > n for a float x >= 0 and a natural number n
FloatGreater(x, n) == x.units > n \/ (x.units = n /\ x.frac # <<>>)

\* canonical fields and amounts the groupings are drawn from
Campos == {"saldo", "ir"}
Valores == {Float(1, <<>>), Float(300000000, <<>>), Float(700000000, <<>>)}

\* a LabeledValue as calculate_totals_safe reads it
LabeledValue(status_validacao, valor_decimal) ==
    [status_validacao |-> status_validacao, valor_decimal |-> valor_decimal]

LabeledValues ==
    { LabeledValue("OK", v) : v \in Valores } \cup { LabeledValue("SUSPEITO", NoneObj) }

RECURSIVE SeqsUpTo(_, _)
SeqsUpTo(S, n) ==
    IF n = 0 THEN { <<>> }
    ELSE SeqsUpTo(S, n - 1)
         \cup { Append(q, x) : q \in { r \in SeqsUpTo(S, n - 1) : Len(r) = n - 1 }, x \in S }

RECURSIVE sum(_)
sum(seq) ==
    IF seq = <<>> THEN FloatZero ELSE FloatAdd(sum(SubSeq(seq, 1, Len(seq) - 1)), seq[Len(seq)].valor_decimal)

abs(x) == [x EXCEPT !.neg = FALSE]

\* a misspelt status: nothing is ever counted as suspect
valores_suspeitos_misspelt(valores) ==
    LET IsSuspect(v) == v.status_validacao = "SUSPECT" IN SelectSeq(valores, IsSuspect)

valores_suspeitos(valores) ==
    LET IsSuspeito(v) == v.status_validacao = "SUSPEITO" IN SelectSeq(valores, IsSuspeito)

valores_ok(valores) ==
    LET IsOk(v) == v.status_validacao = "OK" /\ v.valor_decimal # NoneObj IN SelectSeq(valores, IsOk)

\* a key that the dict `totais` does not hold
Absent == -2

\* the entries total_<campo>, total_<campo>_erro and total_<campo>_count
TotalEntry(total, erro, count) == [total |-> total, erro |-> erro, count |-> count]

NoErro == [kind |-> "absent", n |-> 0]
ErroSuspeitos(n) == [kind |-> "valores suspeitos detectados", n |-> n]
ErroAbsurdo(total) == [kind |-> "Total absurdo", total |-> total]

\* the values of all fields, field after field
RECURSIVE FlatValues(_)
FlatValues(valores_por_campo) ==
    IF valores_por_campo = <<>> THEN <<>>
    ELSE Head(valores_por_campo).valores \o FlatValues(Tail(valores_por_campo))

\* one iteration of `for campo, valores in valores_por_campo.items()`, or the return
calculate_totals_safe ==
    /\ totals.pc = "loop"
    /\ IF totals.next <= Len(totals.valores_por_campo)
       THEN LET campo == totals.valores_por_campo[totals.next].campo
                valores == totals.valores_por_campo[totals.next].valores
                suspeitos == valores_suspeitos(valores)
                ok == valores_ok(valores)
                total == sum(ok)
            IN IF suspeitos # <<>>
               THEN totals' =
                      [totals EXCEPT
                         !.campos_com_erro = Append(@, campo),
                         !.totais = Put(@, campo,
                                        TotalEntry(NoneObj, ErroSuspeitos(Len(suspeitos)), 0)),
                         !.next = @ + 1]
               ELSE IF ok # <<>>
               THEN IF FloatGreater(abs(total), VALOR_MAX_RAZOAVEL)
                    THEN totals' =
                           [totals EXCEPT
                              !.campos_com_erro = Append(@, campo),
                              !.totais = Put(@, campo,
                                             TotalEntry(NoneObj, ErroAbsurdo(total), Absent)),
                              !.next = @ + 1]
                    ELSE totals' =
                           [totals EXCEPT
                              !.totais = Put(@, campo, TotalEntry(total, NoErro, Len(ok))),
                              !.next = @ + 1]
               ELSE totals' =
                      [totals EXCEPT
                         !.totais = Put(@, campo, TotalEntry(FloatZero, NoErro, 0)),
                         !.next = @ + 1]
       ELSE totals' =
              [totals EXCEPT
                 !.tem_valores_suspeitos = Len(totals.campos_com_erro) > 0,
                 !.pc = "done"]
    /\ UNCHANGED <<jobs, results, now, ret, nextJob, files, tasks, response, calls, queue, lock, threads, loop>>
    /\ UNCHANGED <<batching, extraction, orchestration, convenio>>

\* The keys of the dict `totais`, each split at its underscores into the words
\* it is made of (a field name is one word): total_<campo>, total_<campo>_erro
\* and total_<campo>_count where they were set, then the two flags.
TotaisKeys(totais) ==
    { <<"total", c>> : c \in DOMAIN totais }
    \cup { <<"total", c, "erro">> : c \in { x \in DOMAIN totais : totais[x].erro # NoErro } }
    \cup { <<"total", c, "count">> : c \in { x \in DOMAIN totais : totais[x].count # Absent } }
    \cup { <<"tem", "valores", "suspeitos">>, <<"campos", "com", "erro">> }

\* k.endswith('_erro')
endswith_erro(k) == Len(k) > 1 /\ k[Len(k)] = "erro"

\* validate_extraction(valores_por_campo, totais), called on the returned totals
validate_extraction ==
    /\ totals.pc = "done"
    /\ LET todos == FlatValues(totals.valores_por_campo)
           IsOk(v) == v.status_validacao = "OK"
           total_valores == Len(todos)
           ok == Len(SelectSeq(todos, IsOk))
           totais_bloqueados == { k \in TotaisKeys(totals.totais) : endswith_erro(k) }
       IN totals' =
             [totals EXCEPT
                !.pc = "validated",
                !.validacao =
                   [ total_valores_extraidos |-> total_valores,
                     valores_ok              |-> ok,
                     valores_suspeitos       |-> total_valores - ok,
                     tem_erros_bloqueantes   |-> Cardinality(totais_bloqueados) > 0,
                     erros_bloqueantes       |-> totais_bloqueados ]]
    /\ UNCHANGED <<jobs, results, now, ret, nextJob, files, tasks, response, calls, queue, lock, threads, loop>>
    /\ UNCHANGED <<batching, extraction, orchestration, convenio>>

\* the groupings: a dict keeps its keys distinct and in insertion order
Groupings ==
    LET Lists == SeqsUpTo(LabeledValues, MaxValores)
        Entry(c) == { [campo |-> c, valores |-> l] : l \in Lists }
    IN { <<>> }
       \cup { <<e>> : e \in UNION { Entry(c) : c \in Campos } }
       \cup { <<e1, e2>> : e1 \in Entry("saldo"), e2 \in Entry("ir") }
       \cup { <<e1, e2>> : e1 \in Entry("ir"), e2 \in Entry("saldo") }

InitTotals ==
    /\ IdleApi
    /\ totals \in { [pc |-> "loop", valores_por_campo |-> g, next |-> 1, totais |-> <<>>,
                     campos_com_erro |-> <<>>, tem_valores_suspeitos |-> FALSE,
                     validacao |-> NoneObj]
                      : g \in Groupings }
    /\ batching = NoFrame
    /\ extraction = NoFrame
    /\ orchestration = NoFrame
    /\ convenio = NoFrame

NextTotals ==
    \/ calculate_totals_safe
    \/ validate_extraction

SpecTotals == InitTotals /\ [][NextTotals]_vars

\* ---- label-anchored extraction
\* A text is a sequence of characters, each a one-character string.
Digits == {"0", "1", "2", "3", "4", "5", "6", "7", "8", "9"}
LowerCase == <<"a", "b", "c", "d", "e", "f", "g", "h", "i", "j", "k", "l", "m", "n", "o", "p", "q", "r", "s", "t", "u", "v", "w", "x", "y", "z", "á", "í", "ç", "ã", "õ", "ê">>
UpperCase == <<"A", "B", "C", "D", "E", "F", "G", "H", "I", "J", "K", "L", "M", "N", "O", "P", "Q", "R", "S", "T", "U", "V", "W", "X", "Y", "Z", "Á", "Í", "Ç", "Ã", "Õ", "Ê">>
Letters == { LowerCase[i] : i \in 1..Len(LowerCase) } \cup { UpperCase[i] : i \in 1..Len(UpperCase) }
\* \s, apart from the newline that extract_from_text splits on
Whitespace == {" ", "\t"}
\* \w
WordChars == Letters \cup Digits \cup {"_"}
IsWord(c) == c \in WordChars

\* re.IGNORECASE compares the characters case-folded
FoldMap ==
    [ c \in { LowerCase[i] : i \in 1..Len(LowerCase) } |->
        UpperCase[CHOOSE i \in 1..Len(LowerCase) : LowerCase[i] = c] ]
Fold(c) == IF c \in DOMAIN FoldMap THEN FoldMap[c] ELSE c

\* the closed vocabulary, in the dict's order
ROTULOS_VALIDOS ==
    << [rotulo |-> "SALDO ANTERIOR", campo |-> "saldo_anterior",
        chars |-> <<"S", "A", "L", "D", "O", " ", "A", "N", "T", "E", "R", "I", "O", "R">>],
       [rotulo |-> "SALDO ATUAL", campo |-> "saldo_atual",
        chars |-> <<"S", "A", "L", "D", "O", " ", "A", "T", "U", "A", "L">>],
       [rotulo |-> "SALDO", campo |-> "saldo",
        chars |-> <<"S", "A", "L", "D", "O">>],
       [rotulo |-> "ENTRADA", campo |-> "entrada",
        chars |-> <<"E", "N", "T", "R", "A", "D", "A">>],
       [rotulo |-> "SAIDA", campo |-> "saida",
        chars |-> <<"S", "A", "I", "D", "A">>],
       [rotulo |-> "SAÍDA", campo |-> "saida",
        chars |-> <<"S", "A", "Í", "D", "A">>],
       [rotulo |-> "APLICACAO", campo |-> "aplicacao",
        chars |-> <<"A", "P", "L", "I", "C", "A", "C", "A", "O">>],
       [rotulo |-> "APLICAÇÃO", campo |-> "aplicacao",
        chars |-> <<"A", "P", "L", "I", "C", "A", "Ç", "Ã", "O">>],
       [rotulo |-> "APLICACOES", campo |-> "aplicacao",
        chars |-> <<"A", "P", "L", "I", "C", "A", "C", "O", "E", "S">>],
       [rotulo |-> "APLICAÇÕES", campo |-> "aplicacao",
        chars |-> <<"A", "P", "L", "I", "C", "A", "Ç", "Õ", "E", "S">>],
       [rotulo |-> "RESGATE", campo |-> "resgate",
        chars |-> <<"R", "E", "S", "G", "A", "T", "E">>],
       [rotulo |-> "RESGATES", campo |-> "resgate",
        chars |-> <<"R", "E", "S", "G", "A", "T", "E", "S">>],
       [rotulo |-> "RENDIMENTO", campo |-> "rendimento",
        chars |-> <<"R", "E", "N", "D", "I", "M", "E", "N", "T", "O">>],
       [rotulo |-> "RENDIMENTOS", campo |-> "rendimento",
        chars |-> <<"R", "E", "N", "D", "I", "M", "E", "N", "T", "O", "S">>],
       [rotulo |-> "RENDIMENTO BRUTO", campo |-> "rendimento_bruto",
        chars |-> <<"R", "E", "N", "D", "I", "M", "E", "N", "T", "O", " ", "B", "R", "U", "T", "O">>],
       [rotulo |-> "RENDIMENTO LIQUIDO", campo |-> "rendimento_liquido",
        chars |-> <<"R", "E", "N", "D", "I", "M", "E", "N", "T", "O", " ", "L", "I", "Q", "U", "I", "D", "O">>],
       [rotulo |-> "RENDIMENTO LÍQUIDO", campo |-> "rendimento_liquido",
        chars |-> <<"R", "E", "N", "D", "I", "M", "E", "N", "T", "O", " ", "L", "Í", "Q", "U", "I", "D", "O">>],
       [rotulo |-> "IMPOSTO DE RENDA", campo |-> "ir",
        chars |-> <<"I", "M", "P", "O", "S", "T", "O", " ", "D", "E", " ", "R", "E", "N", "D", "A">>],
       [rotulo |-> "IR", campo |-> "ir",
        chars |-> <<"I", "R">>],
       [rotulo |-> "IOF", campo |-> "iof",
        chars |-> <<"I", "O", "F">>],
       [rotulo |-> "TARIFA", campo |-> "tarifa",
        chars |-> <<"T", "A", "R", "I", "F", "A">>],
       [rotulo |-> "TARIFA PAGA", campo |-> "tarifa_paga",
        chars |-> <<"T", "A", "R", "I", "F", "A", " ", "P", "A", "G", "A">>],
       [rotulo |-> "TARIFA DEVOLVIDA", campo |-> "tarifa_devolvida",
        chars |-> <<"T", "A", "R", "I", "F", "A", " ", "D", "E", "V", "O", "L", "V", "I", "D", "A">>],
       [rotulo |-> "VALOR DA COTA", campo |-> "valor_cota",
        chars |-> <<"V", "A", "L", "O", "R", " ", "D", "A", " ", "C", "O", "T", "A">>],
       [rotulo |-> "RENTABILIDADE", campo |-> "rentabilidade",
        chars |-> <<"R", "E", "N", "T", "A", "B", "I", "L", "I", "D", "A", "D", "E">>] >>

\* \b before position i of the line (positions are 1-based, Len + 1 is the end)
WordBoundary(linha, i) ==
    LET before == i > 1 /\ IsWord(linha[i - 1])
        after == i <= Len(linha) /\ IsWord(linha[i])
    IN before # after

\* re.escape(rotulo) matched at position i, ignoring case
LabelAt(linha, chars, i) ==
    /\ i + Len(chars) - 1 <= Len(linha)
    /\ \A k \in 1..Len(chars) : Fold(linha[i + k - 1]) = Fold(chars[k])

\* a blank run that also swallows letters: the position of the first character
\* that is neither
RECURSIVE SkipWsAndLetters(_, _)
SkipWsAndLetters(linha, i) ==
    IF i <= Len(linha) /\ linha[i] \in Whitespace \cup Letters
    THEN SkipWsAndLetters(linha, i + 1) ELSE i

\* \s* from position i: the position of the first non-blank character
RECURSIVE SkipWs(_, _)
SkipWs(linha, i) ==
    IF i <= Len(linha) /\ linha[i] \in Whitespace THEN SkipWs(linha, i + 1) ELSE i

\* a separator that swallows any characters up to the next digit
RECURSIVE SkipSeparatorAny(_, _)
SkipSeparatorAny(linha, i) ==
    IF i <= Len(linha) /\ linha[i] \notin Digits THEN SkipSeparatorAny(linha, i + 1) ELSE i

\* \s*[\:\-]?\s* from position i
SkipSeparator(linha, i) ==
    LET a == SkipWs(linha, i)
        b == IF a <= Len(linha) /\ linha[a] \in {":", "-"} THEN a + 1 ELSE a
    IN SkipWs(linha, b)

\* [0-9]* from position i
RECURSIVE SkipDigits(_, _)
SkipDigits(linha, i) ==
    IF i <= Len(linha) /\ linha[i] \in Digits THEN SkipDigits(linha, i + 1) ELSE i

IsDigitAt(linha, i) == i <= Len(linha) /\ linha[i] \in Digits

\* (?:\.[0-9]+)* from position i
RECURSIVE SkipGroups(_, _)
SkipGroups(linha, i) ==
    IF i <= Len(linha) /\ linha[i] = "." /\ IsDigitAt(linha, i + 1)
    THEN SkipGroups(linha, SkipDigits(linha, i + 1))
    ELSE i

\* ([0-9]+(?:\.[0-9]+)*(?:,[0-9]+)?) from position i: the position after the
\* numeral, or 0 when no digit stands at i
NumberEnd(linha, i) ==
    IF ~IsDigitAt(linha, i) THEN 0
    ELSE LET a == SkipGroups(linha, SkipDigits(linha, i))
         IN IF a <= Len(linha) /\ linha[a] = "," /\ IsDigitAt(linha, a + 1)
            THEN SkipDigits(linha, a + 1)
            ELSE a

NoMatch == [start |-> 0, group1 |-> 0, end |-> 0]

\* the compiled pattern of a label tried at position i
MatchAt(linha, chars, i) ==
    IF /\ LabelAt(linha, chars, i)
       /\ WordBoundary(linha, i)
       /\ WordBoundary(linha, i + Len(chars))
    THEN LET q == SkipSeparator(linha, i + Len(chars))
             e == NumberEnd(linha, q)
         IN IF e = 0 THEN NoMatch ELSE [start |-> i, group1 |-> q, end |-> e]
    ELSE NoMatch

\* pattern.finditer(linha): the non-overlapping matches, left to right
RECURSIVE finditer(_, _, _)
finditer(linha, chars, pos) ==
    LET found == { i \in pos..Len(linha) : MatchAt(linha, chars, i) # NoMatch }
    IN IF found = {} THEN <<>>
       ELSE LET first == CHOOSE i \in found : \A k \in found : i <= k
                m == MatchAt(linha, chars, first)
            IN <<m>> \o finditer(linha, chars, m.end)

\* str.strip()
RECURSIVE lstrip(_)
lstrip(s) == IF s # <<>> /\ Head(s) \in Whitespace \cup {"\n"} THEN lstrip(Tail(s)) ELSE s
RECURSIVE rstrip(_)
rstrip(s) ==
    IF s # <<>> /\ s[Len(s)] \in Whitespace \cup {"\n"}
    THEN rstrip(SubSeq(s, 1, Len(s) - 1)) ELSE s
strip(s) == rstrip(lstrip(s))

Without(s, c) == LET Keep(x) == x # c IN SelectSeq(s, Keep)

\* the first position >= i of character c in s, or 0
IndexOf(s, c, i) ==
    LET hits == { k \in i..Len(s) : s[k] = c }
    IN IF hits = {} THEN 0 ELSE CHOOSE k \in hits : \A h \in hits : k <= h

RECURSIVE StripZeros(_)
StripZeros(s) == IF Len(s) > 1 /\ Head(s) = "0" THEN StripZeros(Tail(s)) ELSE s

\* a > b for two digit strings of the same length
RECURSIVE LexGreater(_, _)
LexGreater(a, b) ==
    IF a = <<>> THEN FALSE
    ELSE IF Head(a) # Head(b) THEN DigitValue(Head(a)) > DigitValue(Head(b))
    ELSE LexGreater(Tail(a), Tail(b))

\* a limit that is itself out of bounds: Decimal(int.frac) >= n
DecimalNotLess(int, frac, n) ==
    LET a == StripZeros(int)
        b == DigitsOf(n)
    IN \/ Len(a) > Len(b)
       \/ Len(a) = Len(b) /\ LexGreater(a, b)
       \/ a = b

\* Decimal(int.frac) > n, for a natural number n
DecimalGreater(int, frac, n) ==
    LET a == StripZeros(int)
        b == DigitsOf(n)
    IN \/ Len(a) > Len(b)
       \/ Len(a) = Len(b) /\ LexGreater(a, b)
       \/ a = b /\ \E k \in 1..Len(frac) : frac[k] # "0"

\* the Decimal of a numeral: its integer digits and its fraction digits
Decimal(int, frac) == [int |-> StripZeros(int), frac |-> frac]

\* "168.376,96" -> Decimal("168376.96"), or None above VALOR_MAX_RAZOAVEL
\* (the pattern's numeral has no sign, so VALOR_MIN_RAZOAVEL is never reached)
parse_brazilian_number(texto) ==
    LET t == Without(strip(texto), ".")
        c == IndexOf(t, ",", 1)
        int == IF c = 0 THEN t ELSE SubSeq(t, 1, c - 1)
        frac == IF c = 0 THEN <<>> ELSE SubSeq(t, c + 1, Len(t))
    IN IF DecimalGreater(int, frac, VALOR_MAX_RAZOAVEL)
       THEN NoneObj
       ELSE Decimal(int, frac)

\* float(valor_decimal), for a Decimal within the limits
float(d) == Float(NatOf(d.int), d.frac)

\* the dict appended for one match of one label
ValorEncontrado(r, linha, page_num, m) ==
    LET texto_valor == SubSeq(linha, m.group1, m.end - 1)
        valor_decimal == parse_brazilian_number(texto_valor)
    IN IF valor_decimal # NoneObj
       THEN [ rotulo |-> r.rotulo, campo |-> r.campo, valor_texto |-> texto_valor,
              valor_decimal |-> float(valor_decimal), pagina |-> page_num,
              linha_original |-> strip(linha), status_validacao |-> "OK",
              posicao_match |-> m.start - 1, motivo |-> NoneStr ]
       ELSE [ rotulo |-> r.rotulo, campo |-> r.campo, valor_texto |-> texto_valor,
              valor_decimal |-> NoneObj, pagina |-> page_num,
              linha_original |-> strip(linha), status_validacao |-> "SUSPEITO",
              posicao_match |-> Absent, motivo |-> "Valor fora dos limites razoaveis" ]

RECURSIVE MapMatches(_, _, _, _)
MapMatches(r, linha, page_num, ms) ==
    IF ms = <<>> THEN <<>>
    ELSE <<ValorEncontrado(r, linha, page_num, Head(ms))>>
         \o MapMatches(r, linha, page_num, Tail(ms))

\* __init__: an extractor holds the compiled pattern of every label, in the
\* vocabulary's order
FinancialLabelExtractor == [rotulo_patterns |-> ROTULOS_VALIDOS]

\* the values of the patterns k..last on one line
RECURSIVE ExtractFrom(_, _, _, _)
ExtractFrom(rotulo_patterns, k, linha, page_num) ==
    IF k > Len(rotulo_patterns) THEN <<>>
    ELSE MapMatches(rotulo_patterns[k], linha, page_num,
                    finditer(linha, rotulo_patterns[k].chars, 1))
         \o ExtractFrom(rotulo_patterns, k + 1, linha, page_num)

extract_from_line(self, linha, page_num) == ExtractFrom(self.rotulo_patterns, 1, linha, page_num)

\* texto.split('\n')
RECURSIVE split(_)
split(texto) ==
    LET n == IndexOf(texto, "\n", 1)
    IN IF n = 0 THEN <<texto>>
       ELSE <<SubSeq(texto, 1, n - 1)>> \o split(SubSeq(texto, n + 1, Len(texto)))

RECURSIVE AllValues(_, _, _)
AllValues(self, linhas, page_num) ==
    IF linhas = <<>> THEN <<>>
    ELSE (IF strip(Head(linhas)) # <<>> THEN extract_from_line(self, Head(linhas), page_num) ELSE <<>>)
         \o AllValues(self, Tail(linhas), page_num)

\* valores_por_campo: the values grouped by field, fields in order of first appearance
RECURSIVE GroupByCampo(_, _)
GroupByCampo(valores, grouped) ==
    IF valores = <<>> THEN grouped
    ELSE LET v == Head(valores)
             at == { k \in 1..Len(grouped) : grouped[k].campo = v.campo }
         IN IF at = {}
            THEN GroupByCampo(Tail(valores),
                              Append(grouped, [campo |-> v.campo, valores |-> <<v>>]))
            ELSE GroupByCampo(Tail(valores),
                              [grouped EXCEPT ![CHOOSE k \in at : TRUE].valores = Append(@, v)])

extract_from_text(self, texto, page_num) ==
    GroupByCampo(AllValues(self, split(texto), page_num), <<>>)

ExtractFromText ==
    /\ extraction.pc = "call"
    /\ extraction' = [extraction EXCEPT
                        !.valores_por_campo = extract_from_text(FinancialLabelExtractor, extraction.texto,
                                                                 extraction.page_num),
                        !.pc = "done"]
    /\ UNCHANGED <<jobs, results, now, ret, nextJob, files, tasks, response, calls, queue, lock, threads, loop>>
    /\ UNCHANGED <<batching, totals, orchestration, convenio>>

\* the page texts: up to MaxFragments pieces of OCR text, one after the other
MaxFragments == 4

Fragments ==
    { <<"S", "A", "L", "D", "O", " ", "A", "N", "T", "E", "R", "I", "O", "R">>,
      <<"i", "r">>,
      <<" ">>,
      <<":">>,
      <<"1", "6", "8", ".", "3", "7", "6", ",", "9", "6">>,
      <<"3", ".", "2", "5", "4", ".", "2", "6", "9", ".", "4", "5", "9", ",", "9", "8">>,
      <<"c", "o", "t", "a", "s">>,
      <<"\n">> }

RECURSIVE Concat(_)
Concat(ss) == IF ss = <<>> THEN <<>> ELSE Head(ss) \o Concat(Tail(ss))

Texts == { Concat(fs) : fs \in SeqsUpTo(Fragments, MaxFragments) }

InitExtract ==
    /\ IdleApi
    /\ extraction \in { [pc |-> "call", texto |-> t, page_num |-> 1, valores_por_campo |-> <<>>]
                          : t \in Texts }
    /\ batching = NoFrame
    /\ totals = NoFrame
    /\ orchestration = NoFrame
    /\ convenio = NoFrame

NextExtract == ExtractFromText

SpecExtract == InitExtract /\ [][NextExtract]_vars

\* ---- repeated calls of extract_from_text on two extractors
MaxExtractCalls == 3

RepeatTexts ==
    { <<"S", "A", "L", "D", "O", " ", "A", "N", "T", "E", "R", "I", "O", "R", " ",
        "1", "6", "8", ".", "3", "7", "6", ",", "9", "6", "\n",
        "i", "r", ":", " ", "3", ".", "2", "5", "4", ".", "2", "6", "9", ".", "4", "5", "9", ",", "9", "8">>,
      <<"S", "A", "L", "D", "O", " ", "1">> }

PageNums == {1, 2}

\* patterns handed out as a one-shot iterator: the first call uses them up
self_exhausted(self) == [self EXCEPT !.rotulo_patterns = <<>>]

\* the extractor after a call: extract_from_text and extract_from_line read
\* self.rotulo_patterns and assign to locals only
self_after_call(self) == self

\* one call extractor.extract_from_text(texto, page_num)
ExtractCall ==
    /\ extraction.pc = "repeat"
    /\ Len(extraction.history) < MaxExtractCalls
    /\ \E i \in DOMAIN extraction.extractors, t \in RepeatTexts, p \in PageNums :
          extraction' =
             [extraction EXCEPT
                !.extractors[i] = self_after_call(@),
                !.history = Append(@, [self |-> i, texto |-> t, page_num |-> p,
                                       valores_por_campo |->
                                          extract_from_text(extraction.extractors[i], t, p)])]
    /\ UNCHANGED <<jobs, results, now, ret, nextJob, files, tasks, response, calls, queue, lock, threads, loop>>
    /\ UNCHANGED <<batching, totals, orchestration, convenio>>

InitRepeat ==
    /\ IdleApi
    /\ extraction = [pc |-> "repeat",
                     extractors |-> <<FinancialLabelExtractor, FinancialLabelExtractor>>,
                     history |-> <<>>]
    /\ batching = NoFrame
    /\ totals = NoFrame
    /\ orchestration = NoFrame
    /\ convenio = NoFrame

NextRepeat == ExtractCall

SpecRepeat == InitRepeat /\ [][NextRepeat]_vars

\* ---- one labeled numeral per page, extracted and then totalled
\* (test_label_extractor.py: extract_from_text, then calculate_totals_safe)
MaxIndent == 1

Separators == { <<" ">>, <<":">>, <<" ", "-", " ">> }

Numerals ==
    { <<"1", "6", "8", ".", "3", "7", "6", ",", "9", "6">>,
      <<"9", "9", "9", ".", "9", "9", "9", ".", "9", "9", "9", ",", "9", "9">>,
      <<"1", ".", "0", "0", "0", ".", "0", "0", "0", ".", "0", "0", "0">>,
      <<"1", ".", "0", "0", "0", ".", "0", "0", "0", ".", "0", "0", "0", ",", "0", "0">>,
      <<"1", ".", "0", "0", "0", ".", "0", "0", "0", ".", "0", "0", "0", ",", "0", "1">>,
      <<"3", ".", "2", "5", "4", ".", "2", "6", "9", ".", "4", "5", "9", ",", "9", "8">> }

\* str.lower()
Lower(c) ==
    IF \E i \in 1..Len(UpperCase) : UpperCase[i] = c
    THEN LowerCase[CHOOSE i \in 1..Len(UpperCase) : UpperCase[i] = c]
    ELSE c

\* the label as the vocabulary writes it, or in lower case
Spellings(chars) == { chars, [k \in 1..Len(chars) |-> Lower(chars[k])] }

\* the lines "<blanks><label><separator><numeral>" of label k of the vocabulary
LinesOf(k) ==
    { [rotulo |-> k, numeral |-> n, texto |-> [i \in 1..b |-> " "] \o c \o sep \o n]
        : n \in Numerals, b \in 0..MaxIndent, sep \in Separators,
          c \in Spellings(ROTULOS_VALIDOS[k].chars) }

LabeledLines == UNION { LinesOf(k) : k \in 1..Len(ROTULOS_VALIDOS) }

\* totais = extractor.calculate_totals_safe(valores_por_campo): the call
TotalsOfExtraction ==
    /\ extraction.pc = "done"
    /\ totals = NoFrame
    /\ totals' = [pc |-> "loop", valores_por_campo |-> extraction.valores_por_campo, next |-> 1,
                  totais |-> <<>>, campos_com_erro |-> <<>>, tem_valores_suspeitos |-> FALSE,
                  validacao |-> NoneObj]
    /\ UNCHANGED <<jobs, results, now, ret, nextJob, files, tasks, response, calls, queue, lock, threads, loop>>
    /\ UNCHANGED <<batching, extraction, orchestration, convenio>>

InitLabeled ==
    /\ IdleApi
    /\ extraction \in { [pc |-> "call", texto |-> l.texto, page_num |-> 1,
                          valores_por_campo |-> <<>>, rotulo |-> l.rotulo, numeral |-> l.numeral]
                          : l \in LabeledLines }
    /\ batching = NoFrame
    /\ totals = NoFrame
    /\ orchestration = NoFrame
    /\ convenio = NoFrame

NextLabeled ==
    \/ ExtractFromText
    \/ TotalsOfExtraction
    \/ calculate_totals_safe

SpecLabeled == InitLabeled /\ [][NextLabeled]_vars

\* ---------------------------------------------------------------- ocr_worker.py, ocr_service.py
\* The batch orchestrator, in its two implementations: process_ocr_job (the
\* worker of the refactored API) and OCRService.process_pdf (the generator
\* process_pdf_in_batches drained by process_pdf).
MaxDocPages == 21
MaxFailures == 2

\* batch_size=10 of process_ocr_job and the default of OCRService
default_batch_size == 10

Orchestrators == {"process_ocr_job", "process_pdf"}

\* for start in range(start, total_pages + 1, batch_size): the ranges (start, end)
RECURSIVE range_batches(_, _, _)
range_batches(start, total_pages, batch_size) ==
    IF start < total_pages + 1
    THEN << <<start, batch_end(start, batch_size, total_pages)>> >>
         \o range_batches(start + batch_size, total_pages, batch_size)
    ELSE <<>>

\* the dict appended for a page; error = NoneStr stands for no "error" key
PageResult(page, text, error) ==
    [page |-> page, text |-> text, has_content |-> text # "", error |-> error]

\* the frame at the call: nothing counted, nothing rendered
OrchestrationFrame(orchestrator, doc_pages) ==
    [ pc |-> "count", orchestrator |-> orchestrator, doc_pages |-> doc_pages,
      total_pages |-> None, batches |-> <<>>, batch_num |-> 1,
      images |-> <<>>, idx |-> 1, results |-> <<>>, all_ocr_results |-> <<>>,
      processed_count |-> 0, failures |-> 0, error |-> NoneStr,
      \* history: the real positions of the images given to OCR, in order
      ocrd |-> <<>> ]

OrchestrationOnly ==
    /\ UNCHANGED <<jobs, results, now, ret, nextJob, files, tasks, response, calls, queue, lock, threads, loop>>
    /\ UNCHANGED <<batching, totals, extraction, convenio>>

\* total_pages = get_page_count(pdf_path), then the ranges; PdfReader may raise
get_page_count ==
    /\ orchestration.pc = "count"
    /\ \/ orchestration' =
             [orchestration EXCEPT
                !.total_pages = orchestration.doc_pages,
                !.batches = range_batches(1, orchestration.doc_pages, default_batch_size),
                !.pc = "batch"]
       \/ orchestration' =
             [orchestration EXCEPT !.error = "Erro ao ler PDF", !.pc = "fatal"]
    /\ OrchestrationOnly

\* images = extract_page_batch(pdf_path, start_page, end_page) for the next
\* range, or the end of the loop over the ranges
extract_page_batch ==
    /\ orchestration.pc = "batch"
    /\ IF orchestration.batch_num <= Len(orchestration.batches)
       THEN LET range == orchestration.batches[orchestration.batch_num]
            IN \/ orchestration' =
                     [orchestration EXCEPT
                        !.images = [i \in 1..(range[2] - range[1] + 1) |-> range[1] + i - 1],
                        !.idx = 1,
                        !.results = <<>>,
                        !.pc = "page"]
               \/ /\ orchestration.failures < MaxFailures
                  /\ IF orchestration.orchestrator = "process_ocr_job"
                     \* except Exception: logged, "continua para proximo batch"
                     THEN orchestration' =
                            [orchestration EXCEPT
                               !.failures = @ + 1,
                               !.batch_num = @ + 1]
                     \* process_pdf_batch lets it through; process_pdf_in_batches re-raises
                     ELSE orchestration' =
                            [orchestration EXCEPT
                               !.failures = @ + 1,
                               !.all_ocr_results = <<>>,
                               !.error = "Erro ao processar PDF",
                               !.pc = "fatal"]
       ELSE orchestration' = [orchestration EXCEPT !.pc = "done"]
    /\ OrchestrationOnly

\* where the entry of a page goes: the worker appends to all_ocr_results, the
\* service to the results of the batch
AppendPage(frame, entry) ==
    IF frame.orchestrator = "process_ocr_job"
    THEN [frame EXCEPT !.all_ocr_results = Append(@, entry), !.idx = @ + 1]
    ELSE [frame EXCEPT !.results = Append(@, entry), !.idx = @ + 1]

\* a page number counted from the start of the batch instead of the document
PageNumInBatch(start_page, idx) == idx + 1

\* page_num = start_page + idx, idx counted from 0 by enumerate
PageNum(start_page, idx) == start_page + idx

\* one iteration of `for idx, image in enumerate(images)`: preprocess and OCR
ocr_page ==
    /\ orchestration.pc = "page"
    /\ orchestration.idx <= Len(orchestration.images)
    /\ LET start_page == orchestration.batches[orchestration.batch_num][1]
           num == PageNum(start_page, orchestration.idx - 1)
           image == orchestration.images[orchestration.idx]
       IN \/ orchestration' =
                [AppendPage(orchestration, PageResult(num, "text", NoneStr))
                    EXCEPT !.processed_count = @ + 1,
                           !.ocrd = Append(@, image)]
          \/ /\ orchestration.failures < MaxFailures
             /\ orchestration' =
                   [AppendPage(orchestration, PageResult(num, "", "Erro ao executar OCR"))
                       EXCEPT !.failures = @ + 1,
                              !.ocrd = Append(@, image)]
    /\ OrchestrationOnly

\* a loop end that keeps the images of the batch referenced
release_batch_keep(frame) ==
    [frame EXCEPT
       !.all_ocr_results = @ \o frame.results,
       !.batch_num = @ + 1,
       !.pc = "batch"]

\* the end of the loop over the images: `del images` (worker), or return,
\* `del images` in the finally, yield and all_results.extend (service)
release_batch(frame) ==
    [frame EXCEPT
       !.images = <<>>,
       !.all_ocr_results = @ \o frame.results,
       !.batch_num = @ + 1,
       !.pc = "batch"]

ReleaseBatch ==
    /\ orchestration.pc = "page"
    /\ orchestration.idx > Len(orchestration.images)
    /\ orchestration' = release_batch(orchestration)
    /\ OrchestrationOnly

InitOrchestrate ==
    /\ IdleApi
    /\ orchestration \in { OrchestrationFrame(o, n) : o \in Orchestrators, n \in 0..MaxDocPages }
    /\ convenio = NoFrame
    /\ batching = NoFrame
    /\ totals = NoFrame
    /\ extraction = NoFrame

NextOrchestrate ==
    \/ get_page_count
    \/ extract_page_batch
    \/ ocr_page
    \/ ReleaseBatch

SpecOrchestrate == InitOrchestrate /\ [][NextOrchestrate]_vars

\* ---------------------------------------------------------------- page_filter.py
\* self.keywords, in the list's order
keywords ==
    << <<"C", "O", "N", "V", "Ê", "N", "I", "O">>,
       <<"C", "O", "N", "V", "E", "N", "I", "O">>,
       <<"B", "A", "N", "C", "O">>,
       <<"D", "A", "D", "O", "S", " ", "B", "A", "N", "C", "Á", "R", "I", "O", "S">>,
       <<"D", "A", "D", "O", "S", " ", "B", "A", "N", "C", "A", "R", "I", "O", "S">>,
       <<"A", "G", "Ê", "N", "C", "I", "A">>,
       <<"A", "G", "E", "N", "C", "I", "A">>,
       <<"C", "O", "N", "T", "A">>,
       <<"C", "O", "N", "T", "A", " ", "C", "O", "R", "R", "E", "N", "T", "E">>,
       <<"C", "O", "N", "T", "A", " ", "P", "O", "U", "P", "A", "N", "Ç", "A">>,
       <<"P", "O", "U", "P", "A", "N", "C", "A">>,
       <<"C", "P", "F">>,
       <<"C", "N", "P", "J">>,
       <<"I", "N", "S", "T", "I", "T", "U", "I", "Ç", "Ã", "O", " ", "F", "I", "N", "A", "N", "C", "E", "I", "R", "A">>,
       <<"I", "N", "S", "T", "I", "T", "U", "I", "C", "A", "O", " ", "F", "I", "N", "A", "N", "C", "E", "I", "R", "A">>,
       <<"B", "A", "N", "C", "O", " ", "D", "O", " ", "B", "R", "A", "S", "I", "L">>,
       <<"B", "R", "A", "D", "E", "S", "C", "O">>,
       <<"I", "T", "A", "U">>,
       <<"I", "T", "A", "U">>,
       <<"S", "A", "N", "T", "A", "N", "D", "E", "R">>,
       <<"C", "A", "I", "X", "A">>,
       <<"C", "A", "I", "X", "A", " ", "E", "C", "O", "N", "O", "M", "I", "C", "A">>,
       <<"N", "U", "B", "A", "N", "K">>,
       <<"I", "N", "T", "E", "R">> >>

high_priority_keywords ==
    << <<"C", "O", "N", "V", "Ê", "N", "I", "O">>,
       <<"C", "O", "N", "V", "E", "N", "I", "O">>,
       <<"D", "A", "D", "O", "S", " ", "B", "A", "N", "C", "Á", "R", "I", "O", "S">>,
       <<"D", "A", "D", "O", "S", " ", "B", "A", "N", "C", "A", "R", "I", "O", "S">> >>

\* str.upper()
upper(text) == [k \in 1..Len(text) |-> Fold(text[k])]

\* `keyword in text`: the keyword is a substring of the text
Contains(text, keyword) ==
    \E i \in 1..(Len(text) - Len(keyword) + 1) :
        SubSeq(text, i, i + Len(keyword) - 1) = keyword

is_relevant_page(text) ==
    IF text = <<>> \/ Len(strip(text)) = 0 THEN FALSE
    ELSE LET text_upper == upper(text)
             \* sum(1 for keyword in self.keywords if keyword in text_upper)
             keyword_count ==
                 Cardinality({ k \in 1..Len(keywords) : Contains(text_upper, keywords[k]) })
             has_high_priority ==
                 \E k \in 1..Len(high_priority_keywords) :
                     Contains(text_upper, high_priority_keywords[k])
         IN keyword_count >= 2 \/ has_high_priority

MaxFilterPages == 2

\* one iteration of `for page_data in ocr_results`, or the return
filter_pages ==
    /\ orchestration.pc = "filter"
    /\ IF orchestration.next <= Len(orchestration.ocr_results)
       THEN LET page_data == orchestration.ocr_results[orchestration.next]
            IN orchestration' =
                  [orchestration EXCEPT
                     !.relevant_pages =
                        IF page_data.has_content /\ is_relevant_page(page_data.text)
                        THEN Append(@, [page |-> page_data.page, text |-> page_data.text,
                                        has_content |-> TRUE])
                        ELSE @,
                     !.next = @ + 1]
       ELSE orchestration' = [orchestration EXCEPT !.pc = "filtered"]
    /\ OrchestrationOnly

\* the words the page texts are made of
FilterWords ==
    { <<"I", "T", "A", "U">>,
      <<"B", "A", "N", "C", "O">>,
      <<"c", "o", "n", "v", "ê", "n", "i", "o">>,
      <<"C", "O", "N", "T", "A", " ", "C", "O", "R", "R", "E", "N", "T", "E">>,
      <<"s", "a", "l", "d", "o">> }

\* a page text: nothing, a blank, one word, or two words with a blank in between
FilterTexts ==
    { <<>>, <<" ">> } \cup FilterWords
    \cup { a \o <<" ">> \o b : a \in FilterWords, b \in FilterWords }

\* all_ocr_results as process_ocr_job collects it: pages numbered from 1,
\* has_content = len(text.strip()) > 0
FilterInputs ==
    { [k \in 1..Len(d) |-> [page |-> k, text |-> d[k], has_content |-> Len(strip(d[k])) > 0]]
        : d \in SeqsUpTo(FilterTexts, MaxFilterPages) }

InitFilter ==
    /\ IdleApi
    /\ orchestration \in { [pc |-> "filter", ocr_results |-> r, next |-> 1, relevant_pages |-> <<>>]
                             : r \in FilterInputs }
    /\ convenio = NoFrame
    /\ batching = NoFrame
    /\ totals = NoFrame
    /\ extraction = NoFrame

NextFilter == filter_pages

SpecFilter == InitFilter /\ [][NextFilter]_vars

\* ---------------------------------------------------------------- job_manager.py, under threads
\* One writer thread and reader threads call the JobManager of one process.
\* Every method body runs inside `with self._lock`; a step of a thread is the
\* acquisition of the lock, one assignment or read, or the release. get_job and
\* list_jobs return the JobMetadata objects of the table themselves, so the
\* fields a reader reads afterwards are those of the table at that moment.
MaxReaders == 1
MaxWrites == 1

Writer == 0
Readers == 1..MaxReaders

\* the job the threads work on, created before they start
SharedJob == 1

\* the assignments of a mutator, in program order
Assign(field, value) == [field |-> field, value |-> value]

Assignments(op, n, m, result) ==
    CASE op = "start_job" ->
            <<Assign("status", PROCESSING), Assign("started_at", now), Assign("total_pages", n)>>
      [] op = "update_progress" ->
            <<Assign("processed_pages", n)>>
      [] op = "complete_job" ->
            <<Assign("status", DONE), Assign("completed_at", now), Assign("_results", result)>>
      [] op = "fail_job" ->
            <<Assign("status", ERROR), Assign("completed_at", now), Assign("error_message", m)>>
      [] op = "cancel_job" ->
            <<Assign("status", CANCELLED), Assign("completed_at", now)>>

WriterOps == {"start_job", "update_progress", "complete_job", "fail_job", "cancel_job"}
ReaderOps == {"get_job", "list_jobs", "get_progress", "get_result"}

\* the fields a reader reads from a JobMetadata it was handed
JobFields == {"status", "started_at", "completed_at", "total_pages", "error_message"}

WriterFrame == [op |-> "none", pc |-> "idle", assignments |-> <<>>, k |-> 1, calls |-> 0]
ReaderFrame == [op |-> "none", pc |-> "idle", seen |-> <<>>, snapshot |-> NoneObj]

ThreadsOnly ==
    /\ UNCHANGED <<now, ret, nextJob, files, tasks, response, calls, queue, loop>>
    /\ UNCHANGED <<batching, totals, extraction, orchestration, convenio>>

\* the writer enters a mutator and waits for the lock
writer_call ==
    /\ threads[Writer].pc = "idle"
    /\ threads[Writer].calls < MaxWrites
    /\ \E op \in WriterOps, n \in Pages, m \in {"Erro desconhecido"},
          result \in ResultsFor(SharedJob) :
          threads' = [threads EXCEPT ![Writer].op = op,
                                     ![Writer].pc = "acquire",
                                     ![Writer].assignments = Assignments(op, n, m, result),
                                     ![Writer].k = 1,
                                     ![Writer].calls = @ + 1]
    /\ UNCHANGED <<jobs, results, lock>>
    /\ ThreadsOnly

\* with self._lock: __enter__
acquire(t) ==
    /\ threads[t].pc = "acquire"
    /\ lock = {}
    /\ lock' = {t}
    /\ threads' = [threads EXCEPT ![t].pc = "locked"]
    /\ UNCHANGED <<jobs, results>>
    /\ ThreadsOnly

\* one assignment of the mutator, under the lock
writer_assign ==
    /\ threads[Writer].pc = "locked"
    /\ threads[Writer].k <= Len(threads[Writer].assignments)
    /\ LET a == threads[Writer].assignments[threads[Writer].k]
       IN IF a.field = "_results"
          THEN /\ results' = Put(results, SharedJob, a.value)
               /\ UNCHANGED jobs
          ELSE /\ jobs' = [jobs EXCEPT ![SharedJob][a.field] = a.value]
               /\ UNCHANGED results
    /\ threads' = [threads EXCEPT ![Writer].k = @ + 1]
    /\ UNCHANGED lock
    /\ ThreadsOnly

\* with self._lock: __exit__
writer_release ==
    /\ threads[Writer].pc = "locked"
    /\ threads[Writer].k > Len(threads[Writer].assignments)
    /\ lock' = {}
    /\ threads' = [threads EXCEPT ![Writer].pc = "idle"]
    /\ UNCHANGED <<jobs, results>>
    /\ ThreadsOnly

\* a reader enters get_job, list_jobs, get_progress or get_result
reader_call(r) ==
    /\ threads[r].pc = "idle"
    /\ \E op \in ReaderOps :
          threads' = [threads EXCEPT ![r].op = op, ![r].pc = "acquire"]
    /\ UNCHANGED <<jobs, results, lock>>
    /\ ThreadsOnly

\* the body of the read method under the lock and the release: get_progress
\* and get_result hand back a value built here, get_job and list_jobs the
\* object of the table
reader_return(r) ==
    /\ threads[r].pc = "locked"
    /\ lock' = {}
    /\ threads' =
          [threads EXCEPT
             ![r].snapshot = IF threads[r].op = "get_progress" THEN get_progress(SharedJob)
                             ELSE IF threads[r].op = "get_result" THEN get_result(SharedJob)
                             ELSE NoneObj,
             ![r].pc = IF threads[r].op \in {"get_job", "list_jobs"}
                       THEN "reading" ELSE "done"]
    /\ UNCHANGED <<jobs, results>>
    /\ ThreadsOnly

\* the reader reads one more field of the object it was handed, without the lock
reader_read(r) ==
    /\ threads[r].pc = "reading"
    /\ \E f \in JobFields \ DOMAIN threads[r].seen :
          threads' = [threads EXCEPT ![r].seen = Put(@, f, jobs[SharedJob][f])]
    /\ UNCHANGED <<jobs, results, lock>>
    /\ ThreadsOnly

WriterCall == writer_call
WriterAcquire == acquire(Writer)
WriterAssign == writer_assign
WriterRelease == writer_release
ReaderCall == \E r \in Readers : reader_call(r)
ReaderAcquire == \E r \in Readers : acquire(r)
ReaderReturn == \E r \in Readers : reader_return(r)
ReaderRead == \E r \in Readers : reader_read(r)

InitThreads ==
    /\ jobs = Put(<<>>, SharedJob, JobMetadata(SharedJob, 0))
    /\ results = <<>>
    /\ now = 0
    /\ ret = NoCall
    /\ nextJob = 0
    /\ files = {}
    /\ tasks = <<>>
    /\ response = NoResponse
    /\ calls = 0
    /\ queue = <<>>
    /\ loop = {}
    /\ lock = {}
    /\ threads = [t \in {Writer} \cup Readers |-> IF t = Writer THEN WriterFrame ELSE ReaderFrame]
    /\ batching = NoFrame
    /\ totals = NoFrame
    /\ extraction = NoFrame
    /\ orchestration = NoFrame
    /\ convenio = NoFrame

NextThreads ==
    \/ WriterCall
    \/ WriterAcquire
    \/ WriterAssign
    \/ WriterRelease
    \/ ReaderCall
    \/ ReaderAcquire
    \/ ReaderReturn
    \/ ReaderRead

SpecThreads == InitThreads /\ [][NextThreads]_vars

\* ---------------------------------------------------------------- safe_convenio_extractor.py
MaxPageLines == 1
MaxConvenioPages == 2

\* bool(x) is False: None or 0.0
Falsy(x) == x = NoneObj \/ x = FloatZero

\* the slot assignments of `if campo == ... elif ...`
Movimentacao(valor_info, page_num) ==
    LET campo == valor_info.campo
        valor == valor_info.valor_decimal
        Is(campos) == campo \in campos
    IN [ descricao_item   |-> valor_info.rotulo,
         entrada          |-> IF Is({"entrada", "aplicacao", "rendimento", "rendimento_bruto",
                                     "rendimento_liquido", "tarifa_devolvida"})
                              THEN valor ELSE FloatZero,
         saida            |-> IF Is({"saida", "resgate", "tarifa_paga"}) THEN valor ELSE FloatZero,
         saldo            |-> IF Is({"saldo", "saldo_atual", "saldo_anterior"})
                              THEN valor ELSE FloatZero,
         aplicacao        |-> IF Is({"aplicacao"}) THEN valor ELSE NoneObj,
         resgate          |-> IF Is({"resgate"}) THEN valor ELSE NoneObj,
         rendimentos      |-> IF Is({"rendimento", "rendimento_bruto", "rendimento_liquido"})
                              THEN valor ELSE NoneObj,
         tarifa_paga      |-> IF Is({"tarifa_paga"}) THEN valor ELSE NoneObj,
         tarifa_devolvida |-> IF Is({"tarifa_devolvida"}) THEN valor ELSE NoneObj,
         origem_documento |-> page_num,
         texto_original   |-> valor_info.linha_original,
         valor_validado   |-> TRUE ]

create_movimentacao_from_label(valor_info, page_num) == Movimentacao(valor_info, page_num)

extract_from_page(ocr_result) ==
    LET page_num == ocr_result.page
        valores_por_campo == extract_from_text(FinancialLabelExtractor, ocr_result.text, page_num)
        todos == FlatValues(valores_por_campo)
        IsOk(v) == v.status_validacao = "OK"
        ok == SelectSeq(todos, IsOk)
    IN [ page          |-> page_num,
         movimentacoes |-> [k \in 1..Len(ok) |-> create_movimentacao_from_label(ok[k], page_num)],
         valores_raw   |-> valores_por_campo,
         tem_erros     |-> \E k \in 1..Len(todos) : todos[k].status_validacao # "OK" ]

\* the slots that _calculate_safe_totals adds up
SummedSlots == {"entrada", "saida", "aplicacao", "resgate", "rendimentos"}

\* `totais[key] += mov.get(slot, 0) or 0` over the validated movements.  The
\* addends are not negative, so a total that has passed MAX_RAZOAVEL stays
\* beyond it; it is kept at the value with which it passed.
RECURSIVE SlotTotal(_, _)
SlotTotal(movimentacoes, slot) ==
    IF movimentacoes = <<>> THEN FloatZero
    ELSE LET n == Len(movimentacoes)
             mov == movimentacoes[n]
             before == SlotTotal(SubSeq(movimentacoes, 1, n - 1), slot)
         IN IF mov.valor_validado /\ ~Falsy(mov[slot])
                  /\ ~FloatGreater(before, VALOR_MAX_RAZOAVEL)
            THEN FloatAdd(before, mov[slot])
            ELSE before

\* the float totals before the final validation, in the dict's order
TotalKeys ==
    <<"total_entrada", "total_saida", "saldo_final", "total_aplicacao", "total_resgate",
      "total_rendimentos">>

SummedTotals(movimentacoes) ==
    [ total_entrada     |-> SlotTotal(movimentacoes, "entrada"),
      total_saida       |-> SlotTotal(movimentacoes, "saida"),
      saldo_final       |-> FloatSub(SlotTotal(movimentacoes, "entrada"),
                                     SlotTotal(movimentacoes, "saida")),
      total_aplicacao   |-> SlotTotal(movimentacoes, "aplicacao"),
      total_resgate     |-> SlotTotal(movimentacoes, "resgate"),
      total_rendimentos |-> SlotTotal(movimentacoes, "rendimentos") ]

\* `for campo, valor in totais.items()` finds abs(valor) > MAX_RAZOAVEL: the body
\* adds the key <campo>_erro to the dict being iterated, and the next step of
\* the iteration raises RuntimeError (dictionary changed size during iteration)
RaisesRuntimeError(movimentacoes) ==
    \E k \in 1..Len(TotalKeys) :
        FloatGreater(abs(SummedTotals(movimentacoes)[TotalKeys[k]]), VALOR_MAX_RAZOAVEL)

\* the totals when nothing was raised: no total is beyond MAX_RAZOAVEL, none is
\* replaced by None and no field is blocked
calculate_safe_totals(movimentacoes) ==
    LET totais == SummedTotals(movimentacoes)
    IN [ total_entrada         |-> totais.total_entrada,
         total_saida           |-> totais.total_saida,
         saldo_final           |-> totais.saldo_final,
         total_aplicacao       |-> totais.total_aplicacao,
         total_resgate         |-> totais.total_resgate,
         total_rendimentos     |-> totais.total_rendimentos,
         count_movimentacoes   |-> Len(movimentacoes),
         tem_valores_suspeitos |-> FALSE,
         campos_bloqueados     |-> <<>> ]

ConvenioOnly ==
    /\ UNCHANGED <<jobs, results, now, ret, nextJob, files, tasks, response, calls, queue, lock, threads, loop>>
    /\ UNCHANGED <<batching, totals, extraction, orchestration>>

\* one iteration of `for ocr_result in ocr_results`
ExtractFromPage ==
    /\ convenio.pc = "pages"
    /\ convenio.next <= Len(convenio.ocr_results)
    /\ LET resultado_pagina == extract_from_page(convenio.ocr_results[convenio.next])
       IN convenio' =
             [convenio EXCEPT
                !.todas_movimentacoes = @ \o resultado_pagina.movimentacoes,
                !.paginas_com_erro = IF resultado_pagina.tem_erros
                                     THEN Append(@, resultado_pagina.page) ELSE @,
                !.next = @ + 1]
    /\ ConvenioOnly

\* after the loop: the totals, then the result (or the exception of the totals)
extract_convenio_data_from_pages ==
    /\ convenio.pc = "pages"
    /\ convenio.next > Len(convenio.ocr_results)
    /\ IF RaisesRuntimeError(convenio.todas_movimentacoes)
       THEN convenio' = [convenio EXCEPT !.pc = "raised", !.error = "RuntimeError"]
       ELSE LET totais == calculate_safe_totals(convenio.todas_movimentacoes)
            IN convenio' =
                  [convenio EXCEPT
                     !.pc = "done",
                     !.resultado =
                        [ movimentacoes |-> convenio.todas_movimentacoes,
                          totais        |-> totais,
                          validacao     |->
                             [ total_movimentacoes    |-> Len(convenio.todas_movimentacoes),
                               paginas_processadas    |-> Len(convenio.ocr_results),
                               paginas_com_erro       |-> convenio.paginas_com_erro,
                               tem_valores_bloqueados |-> totais.tem_valores_suspeitos ] ]]
    /\ ConvenioOnly

\* the OCR lines the pages are made of
ConvenioLines ==
    { <<"E", "N", "T", "R", "A", "D", "A", " ", "1", "6", "8", ".", "3", "7", "6", ",", "9", "6">>,
      <<"E", "N", "T", "R", "A", "D", "A", " ", "3", ".", "2", "5", "4", ".", "2", "6", "9", ".", "4", "5", "9", ",", "9", "8">>,
      <<"S", "A", "L", "D", "O", " ", "1", "6", "8", ".", "3", "7", "6", ",", "9", "6">>,
      <<"c", "o", "t", "a", "s", " ", "1", "6", "8", ".", "3", "7", "6", ",", "9", "6">>,
      <<"E", "N", "T", "R", "A", "D", "A", " ", "9", "0", "0", ".", "0", "0", "0", ".", "0", "0", "0">> }

\* '\n'.join(lines)
RECURSIVE JoinLines(_)
JoinLines(ls) ==
    IF ls = <<>> THEN <<>>
    ELSE IF Len(ls) = 1 THEN Head(ls)
    ELSE Head(ls) \o <<"\n">> \o JoinLines(Tail(ls))

PageTexts == { JoinLines(ls) : ls \in SeqsUpTo(ConvenioLines, MaxPageLines) }

\* the list of OCR results of a document: pages numbered from 1
OcrResults == { [k \in 1..Len(d) |-> [page |-> k, text |-> d[k]]]
                  : d \in SeqsUpTo(PageTexts, MaxConvenioPages) }

InitConvenio ==
    /\ IdleApi
    /\ convenio \in { [pc |-> "pages", ocr_results |-> r, next |-> 1,
                       todas_movimentacoes |-> <<>>, paginas_com_erro |-> <<>>,
                       resultado |-> NoneObj, error |-> NoneStr]
                        : r \in OcrResults }
    /\ batching = NoFrame
    /\ totals = NoFrame
    /\ extraction = NoFrame
    /\ orchestration = NoFrame

NextConvenio ==
    \/ ExtractFromPage
    \/ extract_convenio_data_from_pages

SpecConvenio == InitConvenio /\ [][NextConvenio]_vars

\* ---- extract_from_page on a page of one labeled numeral
\* resultado = extractor.extract_from_page(ocr_result, documento_id)
ExtractFromPageCall ==
    /\ convenio.pc = "page"
    /\ convenio' = [convenio EXCEPT !.pc = "paged",
                                    !.resultado = extract_from_page(convenio.ocr_result)]
    /\ ConvenioOnly

InitMovements ==
    /\ IdleApi
    /\ convenio \in { [pc |-> "page", ocr_result |-> [page |-> p, text |-> l.texto],
                       rotulo |-> l.rotulo, resultado |-> NoneObj]
                        : l \in LabeledLines, p \in PageNums }
    /\ batching = NoFrame
    /\ totals = NoFrame
    /\ extraction = NoFrame
    /\ orchestration = NoFrame

NextMovements == ExtractFromPageCall

SpecMovements == InitMovements /\ [][NextMovements]_vars

\* ---------------------------------------------------------------- extractor.py
\* None where a str is expected: no text is this sequence, whose one element
\* is not a character
NoneChars == <<"None">>

\* \s
Space == Whitespace \cup {"\n"}

\* self.banks, in the list's order
banks ==
    << <<"B", "A", "N", "C", "O", " ", "D", "O", " ", "B", "R", "A", "S", "I", "L">>,
       <<"B", "B">>,
       <<"B", "A", "N", "C", "O", " ", "B", "R", "A", "S", "I", "L">>,
       <<"B", "R", "A", "D", "E", "S", "C", "O">>,
       <<"B", "R", "A", "D", "E", "S", "C", "O", " ", "S", ".", "A", ".">>,
       <<"I", "T", "A", "U">>,
       <<"I", "T", "A", "U", " ", "U", "N", "I", "B", "A", "N", "C", "O">>,
       <<"I", "T", "A", "U", " ", "S", ".", "A", ".">>,
       <<"S", "A", "N", "T", "A", "N", "D", "E", "R">>,
       <<"B", "A", "N", "C", "O", " ", "S", "A", "N", "T", "A", "N", "D", "E", "R">>,
       <<"C", "A", "I", "X", "A">>,
       <<"C", "A", "I", "X", "A", " ", "E", "C", "O", "N", "O", "M", "I", "C", "A", " ", "F", "E", "D", "E", "R", "A", "L">>,
       <<"C", "E", "F">>,
       <<"N", "U", "B", "A", "N", "K">>,
       <<"N", "U", " ", "P", "A", "G", "A", "M", "E", "N", "T", "O", "S">>,
       <<"I", "N", "T", "E", "R">>,
       <<"B", "A", "N", "C", "O", " ", "I", "N", "T", "E", "R">>,
       <<"B", "A", "N", "R", "I", "S", "U", "L">>,
       <<"B", "A", "N", "C", "O", " ", "D", "O", " ", "E", "S", "T", "A", "D", "O", " ", "D", "O", " ", "R", "I", "O", " ", "G", "R", "A", "N", "D", "E", " ", "D", "O", " ", "S", "U", "L">>,
       <<"S", "I", "C", "R", "E", "D", "I">>,
       <<"B", "A", "N", "C", "O", " ", "S", "I", "C", "R", "E", "D", "I">>,
       <<"S", "I", "C", "O", "O", "B">>,
       <<"B", "A", "N", "C", "O", " ", "C", "O", "O", "P", "E", "R", "A", "T", "I", "V", "O", " ", "S", "I", "C", "O", "O", "B">> >>

\* \s* from position i
RECURSIVE SkipSpace(_, _)
SkipSpace(text, i) ==
    IF i <= Len(text) /\ text[i] \in Space THEN SkipSpace(text, i + 1) ELSE i

\* [:\s]* from position i
RECURSIVE SkipColonSpace(_, _)
SkipColonSpace(text, i) ==
    IF i <= Len(text) /\ text[i] \in Space \cup {":"} THEN SkipColonSpace(text, i + 1) ELSE i

\* one of the spellings of a keyword matched at position i ignoring case: the
\* position after it, or 0
AfterKeyword(text, spellings, i) ==
    LET hits == { k \in 1..Len(spellings) : LabelAt(text, spellings[k], i) }
    IN IF hits = {} THEN 0
       ELSE i + Len(spellings[CHOOSE k \in hits : \A h \in hits : k <= h])

\* first \s+ second matched at position i: the position after it, or 0
AfterTwoKeywords(text, first, second, i) ==
    LET p == AfterKeyword(text, first, i)
        q == IF p = 0 THEN 0 ELSE SkipSpace(text, p)
    IN IF p = 0 \/ q = p THEN 0 ELSE AfterKeyword(text, second, q)

\* [:\s]+ from position p > 0: the position after it, or 0
AfterColonSpace(text, p) ==
    IF p = 0 \/ SkipColonSpace(text, p) = p THEN 0 ELSE SkipColonSpace(text, p)

DigitRun(text, i) == SkipDigits(text, i) - i

\* (\d{m,n}) at position r: the group, or NoneChars
DigitsGroup(text, r, m, n) ==
    IF r = 0 \/ DigitRun(text, r) < m THEN NoneChars
    ELSE SubSeq(text, r, r + Min(DigitRun(text, r), n) - 1)

\* (\d{1,2}\.\d{3}) at position r: the group, or NoneChars
DottedGroup(text, r) ==
    IF r = 0 THEN NoneChars
    ELSE LET d == DigitRun(text, r)
         IN IF /\ d \in {1, 2}
               /\ r + d <= Len(text) /\ text[r + d] = "."
               /\ DigitRun(text, r + d + 1) >= 3
            THEN SubSeq(text, r, r + d + 3)
            ELSE NoneChars

\* (\d{1,5}[-\.]?\d{1,5}) at position r: the group, or NoneChars.  Both runs are
\* greedy; when no second run follows, the first gives its last digit back.
SplitGroup(text, r) ==
    IF r = 0 \/ DigitRun(text, r) = 0 THEN NoneChars
    ELSE LET d == DigitRun(text, r)
             s == r + d
         IN IF d > 5 THEN SubSeq(text, r, r + Min(d, 10) - 1)
            ELSE IF s <= Len(text) /\ text[s] \in {"-", "."} /\ IsDigitAt(text, s + 1)
            THEN SubSeq(text, r, s + Min(DigitRun(text, s + 1), 5))
            ELSE IF d >= 2 THEN SubSeq(text, r, s - 1)
            ELSE NoneChars

\* re.search: the group of the leftmost position where the pattern matches,
\* GroupAt(text, i) being the group of a match that starts at i
Search(text, GroupAt(_, _)) ==
    LET found == { i \in 1..Len(text) : GroupAt(text, i) # NoneChars }
    IN IF found = {} THEN NoneChars
       ELSE GroupAt(text, CHOOSE i \in found : \A k \in found : i <= k)

\* the first pattern, in the list's order, whose match passes the length test
RECURSIVE FirstAccepted(_, _)
FirstAccepted(groups, min_len) ==
    IF groups = <<>> THEN NoneChars
    ELSE IF Head(groups) # NoneChars /\ Len(Head(groups)) >= min_len THEN Head(groups)
    ELSE FirstAccepted(Tail(groups), min_len)

AGENCIA == <<<<"A", "G", "E", "N", "C", "I", "A">>, <<"A", "G", "Ê", "N", "C", "I", "A">>>>
AG == <<<<"A", "G">>>>
CONTA == <<<<"C", "O", "N", "T", "A">>>>
CORRENTE == <<<<"C", "O", "R", "R", "E", "N", "T", "E">>>>
POUPANCA == <<<<"P", "O", "U", "P", "A", "N", "Ç", "A">>, <<"P", "O", "U", "P", "A", "N", "C", "A">>>>
CC == <<<<"C", "C">>>>

\* match.group(1).replace('.', '').replace('-', '').strip()
Cleaned(group) ==
    IF group = NoneChars THEN NoneChars
    ELSE LET Keep(c) == c \notin {".", "-"} IN strip(SelectSeq(group, Keep))

extract_agency(text) ==
    LET P1(t, i) == DigitsGroup(t, AfterColonSpace(t, AfterKeyword(t, AGENCIA, i)), 4, 5)
        P2(t, i) == DottedGroup(t, AfterColonSpace(t, AfterKeyword(t, AGENCIA, i)))
        P3(t, i) == DigitsGroup(t, AfterColonSpace(t, AfterKeyword(t, AG, i)), 4, 5)
        P4(t, i) == DottedGroup(t, AfterColonSpace(t, AfterKeyword(t, AG, i)))
    IN FirstAccepted(<<Cleaned(Search(text, P1)), Cleaned(Search(text, P2)),
                       Cleaned(Search(text, P3)), Cleaned(Search(text, P4))>>, 4)

extract_account(text) ==
    LET P1(t, i) == DigitsGroup(t, AfterColonSpace(t, AfterKeyword(t, CONTA, i)), 5, 10)
        P2(t, i) == SplitGroup(t, AfterColonSpace(t, AfterKeyword(t, CONTA, i)))
        P3(t, i) == DigitsGroup(t, AfterColonSpace(t, AfterTwoKeywords(t, CONTA, CORRENTE, i)), 5, 10)
        P4(t, i) == DigitsGroup(t, AfterColonSpace(t, AfterTwoKeywords(t, CONTA, POUPANCA, i)), 5, 10)
        P5(t, i) == DigitsGroup(t, AfterColonSpace(t, AfterKeyword(t, CC, i)), 5, 10)
    IN FirstAccepted(<<Cleaned(Search(text, P1)), Cleaned(Search(text, P2)),
                       Cleaned(Search(text, P3)), Cleaned(Search(text, P4)),
                       Cleaned(Search(text, P5))>>, 5)

\* [A-ZÁÉÍÓÚÇ\s], ignoring case
NameChars ==
    { "A", "B", "C", "D", "E", "F", "G", "H", "I", "J", "K", "L", "M", "N", "O", "P", "Q",
      "R", "S", "T", "U", "V", "W", "X", "Y", "Z", "Á", "Í", "Ç" } \cup Space
IsNameChar(c) == Fold(c) \in NameChars

\* (?:\s|$|\.|,) at position e
NameEnds(text, e) == e > Len(text) \/ text[e] \in Space \cup {".", ","}

\* ([A-ZÁÉÍÓÚÇ\s]+?) from position s: the position after the shortest run of
\* name characters that a terminator follows, or 0
RECURSIVE LazyNameEnd(_, _, _)
LazyNameEnd(text, s, e) ==
    IF e > s /\ NameEnds(text, e) THEN e
    ELSE IF e <= Len(text) /\ IsNameChar(text[e]) THEN LazyNameEnd(text, s, e + 1)
    ELSE 0

\* \s+([A-ZÁÉÍÓÚÇ\s]+?)(?:\s|$|\.|,) from position p > 0, the blanks greedy and
\* giving back one at a time: the group, or NoneChars
NameGroup(text, p) ==
    IF p = 0 THEN NoneChars
    ELSE LET q == SkipSpace(text, p)
             starts == { s \in (p + 1)..q : LazyNameEnd(text, s, s) # 0 }
         IN IF starts = {} THEN NoneChars
            ELSE LET s == CHOOSE x \in starts : \A y \in starts : x >= y
                 IN SubSeq(text, s, LazyNameEnd(text, s, s) - 1)

BANCO == <<<<"B", "A", "N", "C", "O">>>>
INSTITUICAO == <<<<"I", "N", "S", "T", "I", "T", "U", "I", "Ç", "A", "O">>, <<"I", "N", "S", "T", "I", "T", "U", "I", "Ç", "Ã", "O">>, <<"I", "N", "S", "T", "I", "T", "U", "I", "C", "A", "O">>, <<"I", "N", "S", "T", "I", "T", "U", "I", "C", "Ã", "O">>>>
FINANCEIRA == <<<<"F", "I", "N", "A", "N", "C", "E", "I", "R", "A">>>>

\* match.group(1).strip()
Stripped(group) == IF group = NoneChars THEN NoneChars ELSE strip(group)

extract_bank_name(text) ==
    LET text_upper == upper(text)
        known == { k \in 1..Len(banks) : Contains(text_upper, upper(banks[k])) }
        P1(t, i) == NameGroup(t, AfterKeyword(t, BANCO, i))
        P2(t, i) == NameGroup(t, AfterTwoKeywords(t, INSTITUICAO, FINANCEIRA, i))
    IN IF known # {} THEN banks[CHOOSE k \in known : \A h \in known : k <= h]
       \* `if len(bank_name) > 3`
       ELSE FirstAccepted(<<Stripped(Search(text_upper, P1)),
                            Stripped(Search(text_upper, P2))>>, 4)

extract_account_type(text) ==
    LET text_upper == upper(text)
    IN IF \E k \in 1..Len(POUPANCA) : Contains(text_upper, POUPANCA[k]) THEN "POUPANÇA"
       ELSE IF Contains(text_upper, CORRENTE[1]) THEN "CORRENTE"
       ELSE IF Contains(text_upper, CC[1]) THEN "CORRENTE"
       ELSE IF Contains(text_upper, <<"C", "P">>) THEN "POUPANÇA"
       ELSE NoneStr

\* the record of a text; its cpf_cnpj and valor take no part in what
\* extract_multiple_records does with it and are left out
extract_all(text) ==
    [ banco      |-> extract_bank_name(text),
      agencia    |-> extract_agency(text),
      conta      |-> extract_account(text),
      tipo_conta |-> extract_account_type(text) ]

\* bool(x) of an Optional[str]
Truthy(x) == x # NoneChars /\ x # <<>>

\* `for text in pages_text`: the records with a bank or an agency and an account
RECURSIVE all_records(_)
all_records(pages_text) ==
    IF pages_text = <<>> THEN <<>>
    ELSE LET text == Head(pages_text)
             record == extract_all(text)
         IN (IF text = <<>> \/ Len(strip(text)) = 0 THEN <<>>
             ELSE IF Truthy(record.banco) \/ (Truthy(record.agencia) /\ Truthy(record.conta))
             THEN <<record>>
             ELSE <<>>)
            \o all_records(Tail(pages_text))

\* str(x) inside the f-string
StrOf(x) == IF x = NoneChars THEN <<"N", "o", "n", "e">> ELSE x

\* key = f"{record.get('agencia', '')}_{record.get('conta', '')}": the record
\* always has both entries, None included
KeyOf(record) == StrOf(record.agencia) \o <<"_">> \o StrOf(record.conta)

\* `for record in all_records`: unique_records, given the keys seen so far
RECURSIVE unique_records(_, _)
unique_records(records, seen) ==
    IF records = <<>> THEN <<>>
    ELSE LET record == Head(records)
             key == KeyOf(record)
         IN IF key # <<>> /\ key \notin seen
            THEN <<record>> \o unique_records(Tail(records), seen \cup {key})
            ELSE IF key = <<>>
            THEN <<record>> \o unique_records(Tail(records), seen)
            ELSE unique_records(Tail(records), seen)

extract_multiple_records(pages_text) ==
    LET all == all_records(pages_text)
        unique == unique_records(all, {})
    IN IF unique # <<>> THEN unique ELSE all

MaxTexts == 3

\* the texts of the relevant pages handed to the extractor
RecordTexts ==
    { <<"B", "R", "A", "D", "E", "S", "C", "O">>,
      <<"I", "t", "a", "u">>,
      <<"A", "G", ":", " ", "1", "2", "3", "4", " ", "C", "O", "N", "T", "A", ":", " ", "5", "6", "7", "8", "9">>,
      <<"B", "r", "a", "d", "e", "s", "c", "o", " ", "a", "g", "e", "n", "c", "i", "a", " ", "1", "2", "3", "4", " ", "c", "o", "n", "t", "a", " ", "5", "6", "7", "8", "9">>,
      <<"A", "G", "E", "N", "C", "I", "A", ":", " ", "1", "2", "3", "4">>,
      <<" ", " ">>,
      <<"B", "A", "N", "C", "O", " ", "S", "A", "F", "R", "A", " ", "C", "O", "N", "T", "A", " ", "1", "2", "3", "4", "5", "-", "6">>,
      <<"e", "x", "t", "r", "a", "t", "o">> }

\* extracted_data = extractor.extract_multiple_records(texts)
ExtractMultipleRecords ==
    /\ extraction.pc = "records"
    /\ extraction' = [extraction EXCEPT
                         !.pc = "extracted",
                         !.extracted_data = extract_multiple_records(extraction.pages_text)]
    /\ UNCHANGED <<jobs, results, now, ret, nextJob, files, tasks, response, calls, queue, lock, threads, loop>>
    /\ UNCHANGED <<batching, totals, orchestration, convenio>>

InitRecords ==
    /\ IdleApi
    /\ extraction \in { [pc |-> "records", pages_text |-> p, extracted_data |-> <<>>]
                          : p \in SeqsUpTo(RecordTexts, MaxTexts) }
    /\ batching = NoFrame
    /\ totals = NoFrame
    /\ orchestration = NoFrame
    /\ convenio = NoFrame

NextRecords == ExtractMultipleRecords

SpecRecords == InitRecords /\ [][NextRecords]_vars

\* ---------------------------------------------------------------- claims

SameResult(j) ==
    /\ (j \in DOMAIN results') = (j \in DOMAIN results)
    /\ j \in DOMAIN results => results'[j] = results[j]

\* C1: once a job is DONE, ERROR or CANCELLED, no later JobManager call changes
\* its record (status, total_pages, processed_pages, error_message,
\* completed_at) or its attached result.
C1_TerminalIsFinal ==
    [][\A j \in DOMAIN jobs :
          (jobs[j].status \in Terminal /\ j \in DOMAIN jobs')
             => (jobs'[j] = jobs[j] /\ SameResult(j))]_vars

\* C2: a job that is CANCELLED stays CANCELLED, with no result attached and no
\* error message, whatever its worker hands back later.
C2_CancelledWins ==
    [][\A j \in DOMAIN jobs :
          (jobs[j].status = CANCELLED /\ j \in DOMAIN jobs')
             => /\ jobs'[j].status = CANCELLED
                /\ j \notin DOMAIN results'
                /\ jobs'[j].error_message = NoneStr]_vars

AllowedTransitions ==
    { <<PENDING, PROCESSING>>, <<PROCESSING, DONE>>, <<PROCESSING, ERROR>>,
      <<PENDING, CANCELLED>>, <<PROCESSING, CANCELLED>> }

\* C3: through the API every status change of a job is PENDING->PROCESSING,
\* PROCESSING->DONE, PROCESSING->ERROR, PENDING->CANCELLED or
\* PROCESSING->CANCELLED.
C3_StateMachine ==
    [][\A j \in DOMAIN jobs \cap DOMAIN jobs' :
          jobs'[j].status # jobs[j].status
             => <<jobs[j].status, jobs'[j].status>> \in AllowedTransitions]_vars

\* the grouping entry of a field, as handed to calculate_totals_safe
HasSuspect(e) == \E k \in 1..Len(e.valores) : e.valores[k].status_validacao = "SUSPEITO"
HasOk(e) == \E k \in 1..Len(e.valores) : e.valores[k].status_validacao = "OK"

\* C4: a field that contains at least one SUSPECT value has total none, with an
\* error reason, whatever number of OK values it also contains.
C4_SuspectBlocksField ==
    totals.pc = "done" =>
        \A k \in 1..Len(totals.valores_por_campo) :
            LET e == totals.valores_por_campo[k] IN
            HasSuspect(e) =>
                /\ e.campo \in DOMAIN totals.totais
                /\ totals.totais[e.campo].total = NoneObj
                /\ totals.totais[e.campo].erro # NoErro

\* C4 witness: a field mixing OK and SUSPECT values was aggregated and is blocked
C4_Witness ==
    /\ totals.pc = "done"
    /\ \E k \in 1..Len(totals.valores_por_campo) :
          LET e == totals.valores_por_campo[k] IN
          /\ HasSuspect(e) /\ HasOk(e)
          /\ totals.totais[e.campo].total = NoneObj

FoldSeq(s) == [k \in 1..Len(s) |-> Fold(s[k])]

\* only whitespace and at most one ':' or '-'
OnlySeparator(s) ==
    /\ \A k \in 1..Len(s) : s[k] \in Whitespace \cup {":", "-"}
    /\ Cardinality({ k \in 1..Len(s) : s[k] \in {":", "-"} }) <= 1

IsNumeral(t) ==
    /\ t # <<>>
    /\ t[1] \in Digits
    /\ \A k \in 1..Len(t) : t[k] \in Digits \cup {".", ","}

VocabularyLabel(rotulo) ==
    { ROTULOS_VALIDOS[k].chars : k \in { i \in 1..Len(ROTULOS_VALIDOS) : ROTULOS_VALIDOS[i].rotulo = rotulo } }

\* on the line, the numeral of v directly follows an occurrence of the label of v
FollowsLabel(linha, v) ==
    \E chars \in VocabularyLabel(v.rotulo) :
    \E p \in 1..Len(linha) :
        /\ p + Len(chars) - 1 <= Len(linha)
        /\ FoldSeq(SubSeq(linha, p, p + Len(chars) - 1)) = FoldSeq(chars)
        /\ \E q \in (p + Len(chars))..Len(linha) :
              /\ OnlySeparator(SubSeq(linha, p + Len(chars), q - 1))
              /\ q + Len(v.valor_texto) - 1 <= Len(linha)
              /\ SubSeq(linha, q, q + Len(v.valor_texto) - 1) = v.valor_texto

\* C5: every LabeledValue returned by extract_from_text holds a numeral that, on
\* one line of the text, directly follows (only whitespace and at most one ':'
\* or '-' in between) an occurrence of a label of ROTULOS_VALIDOS.
C5_OnlyLabeledNumbers ==
    extraction.pc = "done" =>
        \A g \in 1..Len(extraction.valores_por_campo) :
        \A k \in 1..Len(extraction.valores_por_campo[g].valores) :
            LET v == extraction.valores_por_campo[g].valores[k]
                linhas == split(extraction.texto)
            IN /\ IsNumeral(v.valor_texto)
               /\ \E n \in 1..Len(linhas) :
                     /\ strip(linhas[n]) = v.linha_original
                     /\ FollowsLabel(linhas[n], v)

\* C5 witness: "SALDO ANTERIOR 168.376,96" was extracted to one value of that label
C5_Witness ==
    /\ extraction.pc = "done"
    /\ extraction.texto =
          <<"S", "A", "L", "D", "O", " ", "A", "N", "T", "E", "R", "I", "O", "R">>
          \o <<" ">> \o <<"1", "6", "8", ".", "3", "7", "6", ",", "9", "6">>
    /\ Len(extraction.valores_por_campo) = 1
    /\ Len(extraction.valores_por_campo[1].valores) = 1
    /\ extraction.valores_por_campo[1].valores[1].rotulo = "SALDO ANTERIOR"
    /\ extraction.valores_por_campo[1].valores[1].valor_texto =
          <<"1", "6", "8", ".", "3", "7", "6", ",", "9", "6">>

Ceil(n, b) == (n + b - 1) \div b

PagesOf(range) == range[1]..range[2]

\* C6: calculate_batches returns exactly ceil(N/b) ranges (start, end) with
\* start <= end, ascending, pairwise disjoint, of at most b pages each, whose
\* union is 1..N.
C6_BatchesPartition ==
    batching.pc = "done" =>
        LET bs == batching.batches
            N == batching.total_pages
            b == batching.batch_size
        IN /\ Len(bs) = Ceil(N, b)
           /\ \A i \in 1..Len(bs) :
                 /\ bs[i][1] <= bs[i][2]
                 /\ bs[i][2] - bs[i][1] + 1 <= b
                 /\ i > 1 => bs[i][1] > bs[i - 1][2]
           /\ \A i, k \in 1..Len(bs) : i # k => PagesOf(bs[i]) \cap PagesOf(bs[k]) = {}
           /\ UNION { PagesOf(bs[i]) : i \in 1..Len(bs) } = 1..N

\* C6 witness: the docstring's example, 25 pages in batches of 10
C6_Witness ==
    /\ batching.pc = "done"
    /\ batching.total_pages = 25
    /\ batching.batch_size = 10
    /\ batching.batches = << <<1, 10>>, <<11, 20>>, <<21, 25>> >>

\* C7: a job whose processing was accepted by POST /process eventually is DONE,
\* ERROR or CANCELLED (a swept job was terminal when it was removed).
Accepted(j) == \E t \in DOMAIN tasks : tasks[t].job = j
Settled(j) == j \notin DOMAIN jobs \/ jobs[j].status \in Terminal
C7_EventuallyTerminal ==
    /\ [][\A j \in DOMAIN jobs : j \notin DOMAIN jobs' => jobs[j].status \in Terminal]_vars
    /\ \A j \in JobIds : Accepted(j) ~> Settled(j)

\* C7 witness: the awaited future raised and the job of that task ended in ERROR
C7_Witness ==
    \E t \in DOMAIN tasks :
        /\ tasks[t].pc = "handled"
        /\ tasks[t].outcome.raised
        /\ tasks[t].job \in DOMAIN jobs
        /\ jobs[tasks[t].job].status = ERROR

\* C8: a result is stored for a job id only if that job's status is DONE.
C8_ResultOnlyIfDone ==
    \A j \in DOMAIN results : j \in DOMAIN jobs /\ jobs[j].status = DONE

Submitted(j) == {t \in DOMAIN tasks : tasks[t].job = j /\ tasks[t].pc # "added"}

\* C9: for each job id at most one process_ocr_job execution is ever submitted
\* to the pool.
C9_SingleDispatch ==
    \A j \in JobIds : Cardinality(Submitted(j)) <= 1

\* C10: start_job succeeds only on an existing PENDING job (setting PROCESSING,
\* total_pages and started_at); it raises on an unknown id, and on a job in any
\* other state it is rejected and leaves the job table unchanged.
C10_StartJobContract ==
    [][\A j \in JobIds :
          (calls' = calls + 1 /\ ret'.op = "start_job" /\ ret'.job_id = j)
             => IF j \notin DOMAIN jobs
                THEN ret'.raised /\ jobs' = jobs
                ELSE IF jobs[j].status = PENDING
                THEN /\ ~ret'.raised
                     /\ jobs'[j].status = PROCESSING
                     /\ jobs'[j].started_at = now
                     /\ jobs'[j].total_pages \in Pages
                ELSE ret'.raised /\ jobs' = jobs]_vars

\* C11: for every job whose total_pages is known,
\* 0 <= processed_pages <= total_pages, after any sequence of calls.
C11_ProgressWithinTotal ==
    \A j \in DOMAIN jobs :
        jobs[j].total_pages # None =>
            /\ 0 <= jobs[j].processed_pages
            /\ jobs[j].processed_pages <= jobs[j].total_pages

\* an entry per page 1..N, in page order, a failed page with empty text
OneEntryPerPage(entries, N) ==
    /\ Len(entries) = N
    /\ \A p \in 1..N :
          /\ entries[p].page = p
          /\ entries[p].error # NoneStr => entries[p].text = ""

\* C12: whatever pages fail in OCR or rasterization, the orchestrator ends with
\* exactly one result entry per page 1..N, a failed page having empty text and
\* an error field, and it is aborted by nothing but a failure to count the pages.
C12_PageFailuresAbsorbed ==
    /\ orchestration.pc = "done" =>
          OneEntryPerPage(orchestration.all_ocr_results, orchestration.total_pages)
    /\ orchestration.pc = "fatal" => orchestration.total_pages = None

\* C13: the images of a batch are requested only when no image is held and every
\* earlier batch that was rendered has an entry for each of its pages; the
\* images held never exceed one batch.
C13_OneBatchInMemory ==
    [][/\ Len(orchestration'.images) <= default_batch_size
       /\ (orchestration.pc = "batch" /\ orchestration'.pc = "page") =>
             /\ orchestration.images = <<>>
             /\ \A i \in 1..(orchestration.batch_num - 1) :
                   LET seen == { orchestration.all_ocr_results[k].page :
                                    k \in 1..Len(orchestration.all_ocr_results) }
                       range == PagesOf(orchestration.batches[i])
                   IN seen \cap range = {} \/ range \subseteq seen]_vars

\* C13 witness: the third batch of a 21-page document is in memory, the first
\* two were processed and released
C13_Witness ==
    /\ orchestration.pc = "page"
    /\ orchestration.doc_pages = 21
    /\ orchestration.batch_num = 3
    /\ orchestration.images = <<21>>
    /\ Len(orchestration.all_ocr_results) = 20

\* C14: a DELETE /job/{id} against a job that is DONE is rejected with 400 and
\* leaves the job DONE, its record unchanged and its result attached, wherever
\* the request falls among the steps of the completion handler.
C14_CancelDoneRejected ==
    [][\A j \in DOMAIN jobs :
          (jobs[j].status = DONE /\ cancel_job_endpoint(j) /\ Requested)
             => /\ response'.code = 400
                /\ j \in DOMAIN jobs' /\ jobs'[j] = jobs[j]
                /\ j \in DOMAIN results /\ SameResult(j)]_vars

\* C14 witness: the worker's result was applied, then the cancel request for
\* that job was answered 400 and the job is DONE with its result
C14_Witness ==
    /\ response.endpoint = "cancel"
    /\ response.code = 400
    /\ response.job_id \in DOMAIN jobs
    /\ jobs[response.job_id].status = DONE
    /\ response.job_id \in DOMAIN results
    /\ \E t \in DOMAIN tasks : tasks[t].job = response.job_id /\ tasks[t].pc = "handled"

\* C15: cancel_job sets CANCELLED on a PENDING or PROCESSING job; on an unknown
\* id or on a job that is already DONE, ERROR or CANCELLED it changes nothing
\* (a repeated cancel leaves status and completed_at as the first one set them).
C15_CancelIdempotent ==
    [][\A j \in JobIds :
          (cancel_job(j) /\ Called)
             => IF j \notin DOMAIN jobs
                THEN jobs' = jobs /\ results' = results
                ELSE IF jobs[j].status \in Terminal
                THEN jobs' = jobs /\ results' = results
                ELSE /\ jobs'[j].status = CANCELLED
                     /\ results' = results]_vars

\* C16: cleanup_old_jobs(max_age) removes exactly the jobs that are DONE, ERROR
\* or CANCELLED and older than max_age, with their results; PENDING and
\* PROCESSING jobs stay whatever their age, every job and result that stays is
\* unchanged, and no result is left for a removed job.
C16_SweepRemovesOldTerminal ==
    [][\A h \in 0..MaxClock :
          (cleanup_old_jobs(h) /\ Called)
             => LET old == { j \in DOMAIN jobs : /\ jobs[j].status \in Terminal
                                                  /\ now - jobs[j].created_at > h }
                IN /\ DOMAIN jobs' = DOMAIN jobs \ old
                   /\ \A j \in DOMAIN jobs' : jobs'[j] = jobs[j]
                   /\ DOMAIN results' = DOMAIN results \ old
                   /\ \A j \in DOMAIN results' : results'[j] = results[j]
                   /\ \A j \in DOMAIN jobs :
                         jobs[j].status \in {PENDING, PROCESSING} => j \in DOMAIN jobs'
                   /\ \A j \in old : j \notin DOMAIN results']_vars

\* C16 witness: after a sweep an old PROCESSING job is still in the table, and
\* another id has neither job nor result
C16_Witness ==
    /\ ret.op = "cleanup_old_jobs"
    /\ \E j \in DOMAIN jobs :
          /\ jobs[j].status = PROCESSING
          /\ now - jobs[j].created_at > 0
    /\ \E k \in JobIds : k \notin DOMAIN jobs /\ k \notin DOMAIN results

Has(seen, fields) == fields \subseteq DOMAIN seen

\* fields that no finished update of the table ever shows together
PartialUpdate(seen) ==
    \/ /\ Has(seen, {"status", "completed_at"})
       /\ seen.status \in Terminal /\ seen.completed_at = None
    \/ /\ Has(seen, {"status", "started_at"})
       /\ seen.status = PROCESSING /\ seen.started_at = None
    \/ /\ Has(seen, {"status", "total_pages"})
       /\ seen.status = PROCESSING /\ seen.total_pages = None
    \/ /\ Has(seen, {"status", "error_message"})
       /\ seen.status = ERROR /\ seen.error_message = NoneStr

\* C17: with one writer thread and any reader threads, no reader observes a
\* partially applied update, neither in the value built by get_progress nor in
\* the fields it reads from the object returned by get_job or list_jobs.
C17_NoPartialUpdate ==
    \A r \in Readers :
        /\ ~PartialUpdate(threads[r].seen)
        /\ (threads[r].op = "get_progress" /\ threads[r].pc = "done")
              => ~PartialUpdate(threads[r].snapshot)

\* C18: while a worker executes OCR for a job, a status poll can run to
\* completion: the lock of the job table is free, no coroutine keeps the event
\* loop's thread, and GET /status for any job is enabled.
C18_PollNeverBlocked ==
    Running # {} =>
        /\ lock = {}
        /\ loop = {}
        /\ calls < MaxRequests => \A j \in JobIds : ENABLED (get_status(j) /\ Requested)

\* C18 witness: a pool process executes OCR for a job and the poll of that job
\* can be served
C18_Witness ==
    \E t \in Running :
        /\ tasks[t].job \in DOMAIN jobs
        /\ ENABLED (get_status(tasks[t].job) /\ Requested)

\* what the worker or the pool reported for a failed run
Failed(o) == o.raised \/ o.result.status # DONE
Captured(o) == IF o.raised THEN o.error ELSE o.result.error_message

\* C19: when the run of a job fails fatally (the awaited future raises, or the
\* worker returns a result that is not DONE), the completion handler leaves the
\* job in ERROR with a non-empty error_message, the captured message when there
\* is one, and no result is stored for the job.
C19_FatalFailureIsError ==
    [][\A t \in DOMAIN tasks :
          (/\ run_ocr_resume(t) /\ Internal
           /\ Failed(tasks[t].outcome)
           /\ tasks[t].job \in DOMAIN jobs)
             => LET j == tasks[t].job
                    captured == Captured(tasks[t].outcome)
                IN /\ jobs'[j].status = ERROR
                   /\ jobs'[j].error_message \notin {"", NoneStr}
                   /\ captured \notin {"", NoneStr} => jobs'[j].error_message = captured
                   /\ j \notin DOMAIN results']_vars

\* the totals of the document that the values of a field are added to
TotalsFedBy(campo) ==
    CASE campo \in {"entrada", "rendimento_bruto", "rendimento_liquido", "tarifa_devolvida"} ->
            {"total_entrada", "saldo_final"}
      [] campo = "rendimento" -> {"total_entrada", "total_rendimentos", "saldo_final"}
      [] campo = "aplicacao" -> {"total_entrada", "total_aplicacao", "saldo_final"}
      [] campo \in {"saida", "tarifa_paga"} -> {"total_saida", "saldo_final"}
      [] campo = "resgate" -> {"total_saida", "total_resgate", "saldo_final"}
      [] OTHER -> {}

\* C20: when a page of the document yields a SUSPECT value for a field, the
\* result of extract_convenio_data_from_pages has the totals fed by that field
\* blocked (none) and validacao.tem_valores_bloqueados true.
C20_SuspectBlocksDocumentTotals ==
    convenio.pc = "done" =>
        \A p \in 1..Len(convenio.ocr_results) :
            LET valores_raw == extract_from_text(FinancialLabelExtractor,
                                                 convenio.ocr_results[p].text, p)
            IN \A g \in 1..Len(valores_raw) :
                  HasSuspect(valores_raw[g]) =>
                      /\ convenio.resultado.validacao.tem_valores_bloqueados
                      /\ \A key \in TotalsFedBy(valores_raw[g].campo) :
                            convenio.resultado.totais[key] = NoneObj

\* the integer digits and the fraction digits that a numeral denotes
IntegerPart(t) ==
    LET c == IndexOf(t, ",", 1)
    IN StripZeros(Without(IF c = 0 THEN t ELSE SubSeq(t, 1, c - 1), "."))

FractionPart(t) ==
    LET c == IndexOf(t, ",", 1) IN IF c = 0 THEN <<>> ELSE SubSeq(t, c + 1, Len(t))

\* the numeral denotes more than 1,000,000,000
BeyondBound(t) ==
    \/ Len(IntegerPart(t)) > 10
    \/ /\ Len(IntegerPart(t)) = 10
       /\ \/ IntegerPart(t) # <<"1", "0", "0", "0", "0", "0", "0", "0", "0", "0">>
          \/ \E k \in 1..Len(FractionPart(t)) : FractionPart(t)[k] # "0"

\* C21: every value extracted for a labeled numeral is SUSPEITO, with a reason
\* and no value, exactly when the numeral denotes more than 1,000,000,000, and
\* is OK with the value the numeral denotes otherwise; 1.000.000.000 is OK.
C21_SuspectIffBeyondBound ==
    extraction.pc = "done" =>
        \A g \in 1..Len(extraction.valores_por_campo) :
        \A k \in 1..Len(extraction.valores_por_campo[g].valores) :
            LET v == extraction.valores_por_campo[g].valores[k]
            IN IF BeyondBound(v.valor_texto)
               THEN /\ v.status_validacao = "SUSPEITO"
                    /\ v.motivo # NoneStr
                    /\ v.valor_decimal = NoneObj
               ELSE /\ v.status_validacao = "OK"
                    /\ v.valor_decimal =
                          Float(NatOf(IntegerPart(v.valor_texto)), FractionPart(v.valor_texto))

\* C21 witness: the numeral 1.000.000.000 was extracted as an OK value of
\* exactly 1,000,000,000
C21_Witness ==
    /\ extraction.pc = "done"
    /\ Len(extraction.valores_por_campo) = 1
    /\ LET v == extraction.valores_por_campo[1].valores[1]
       IN /\ v.valor_texto = <<"1", ".", "0", "0", "0", ".", "0", "0", "0", ".", "0", "0", "0">>
          /\ v.status_validacao = "OK"
          /\ v.valor_decimal = Float(1000000000, <<>>)

\* the part of C22 about calculate_totals_safe: a field of OK values only gets
\* its sum and its count, or none, a reason and a place in campos_com_erro
TotalsSafeSumOrBlock ==
    totals.pc = "done" =>
        \A k \in 1..Len(totals.valores_por_campo) :
            LET e == totals.valores_por_campo[k]
                total == sum(e.valores)
                entry == totals.totais[e.campo]
                blocked == \E i \in 1..Len(totals.campos_com_erro) :
                              totals.campos_com_erro[i] = e.campo
            IN (~HasSuspect(e) /\ e.valores # <<>>) =>
                  IF FloatGreater(total, VALOR_MAX_RAZOAVEL)
                  THEN entry.total = NoneObj /\ entry.erro = ErroAbsurdo(total) /\ blocked
                  ELSE entry.total = total /\ entry.count = Len(e.valores) /\ ~blocked

\* C22: when the OK values of a field add up to more than 1,000,000,000 in
\* absolute value, _calculate_safe_totals returns normally, with the total
\* none and the field listed as blocked; otherwise it reports the sum.
C22_AbsurdSumBlocked ==
    /\ convenio.pc # "raised"
    /\ convenio.pc = "done" =>
          \A k \in 1..Len(TotalKeys) :
              LET key == TotalKeys[k]
                  total == SummedTotals(convenio.todas_movimentacoes)[key]
                  totais == convenio.resultado.totais
              IN IF FloatGreater(abs(total), VALOR_MAX_RAZOAVEL)
                 THEN /\ totais[key] = NoneObj
                      /\ \E i \in 1..Len(totais.campos_bloqueados) :
                            totais.campos_bloqueados[i] = key
                 ELSE totais[key] = total

\* the reasons of calculate_totals_safe that hold an amount: "Total absurdo:
\* <total>" does, "<n> valores suspeitos detectados" holds a count only
CitesMagnitude(erro) == erro.kind = "Total absurdo"

\* C23: for a page whose only labeled numeral denotes more than 1,000,000,000,
\* extract_from_text yields exactly one value, SUSPEITO, and
\* calculate_totals_safe blocks the total of its field with a reason that
\* cites the absurd magnitude.
C23_AbsurdValueBlocksWithMagnitude ==
    (totals.pc = "done" /\ BeyondBound(extraction.numeral)) =>
        /\ Len(extraction.valores_por_campo) = 1
        /\ Len(extraction.valores_por_campo[1].valores) = 1
        /\ LET v == extraction.valores_por_campo[1].valores[1]
           IN /\ v.status_validacao = "SUSPEITO"
              /\ v.campo \in DOMAIN totals.totais
              /\ totals.totais[v.campo].total = NoneObj
              /\ CitesMagnitude(totals.totais[v.campo].erro)

\* the fields whose total is none
BlockedFields(totais) == { c \in DOMAIN totais : totais[c].total = NoneObj }

\* C24: tem_valores_suspeitos is true exactly when some field total is none,
\* campos_com_erro lists exactly the fields whose total is none, and
\* validate_extraction reports tem_erros_bloqueantes with the same truth value.
C24_SuspectFlagIffBlocked ==
    totals.pc = "validated" =>
        /\ totals.tem_valores_suspeitos = (BlockedFields(totals.totais) # {})
        /\ { totals.campos_com_erro[i] : i \in 1..Len(totals.campos_com_erro) }
              = BlockedFields(totals.totais)
        /\ Len(totals.campos_com_erro) = Cardinality(BlockedFields(totals.totais))
        /\ totals.validacao.tem_erros_bloqueantes = totals.tem_valores_suspeitos

\* C25: a line with one label of the vocabulary followed by one number yields
\* exactly one value, under that label and its canonical field; a shorter label
\* that is a prefix of it (SALDO in SALDO ANTERIOR) yields no second value.
C25_LongestLabelOnly ==
    extraction.pc = "done" =>
        /\ Len(extraction.valores_por_campo) = 1
        /\ Len(extraction.valores_por_campo[1].valores) = 1
        /\ LET v == extraction.valores_por_campo[1].valores[1]
               r == ROTULOS_VALIDOS[extraction.rotulo]
           IN /\ v.rotulo = r.rotulo
              /\ v.campo = r.campo
              /\ extraction.valores_por_campo[1].campo = r.campo
              /\ v.valor_texto = extraction.numeral

\* C25 witness: "SALDO ANTERIOR 168.376,96" gave one OK value 168376.96 in
\* field saldo_anterior
C25_Witness ==
    /\ extraction.pc = "done"
    /\ extraction.texto =
          <<"S", "A", "L", "D", "O", " ", "A", "N", "T", "E", "R", "I", "O", "R", " ",
            "1", "6", "8", ".", "3", "7", "6", ",", "9", "6">>
    /\ Len(extraction.valores_por_campo) = 1
    /\ extraction.valores_por_campo[1].campo = "saldo_anterior"
    /\ Len(extraction.valores_por_campo[1].valores) = 1
    /\ extraction.valores_por_campo[1].valores[1].status_validacao = "OK"
    /\ extraction.valores_por_campo[1].valores[1].valor_decimal = Float(168376, <<"9", "6">>)

DistinctKeywords(text) ==
    { keywords[k] : k \in { i \in 1..Len(keywords) : Contains(upper(text), keywords[i]) } }

HasPriorityKeyword(text) ==
    \E kw \in { <<"C", "O", "N", "V", "Ê", "N", "I", "O">>, <<"C", "O", "N", "V", "E", "N", "I", "O">>,
                 <<"D", "A", "D", "O", "S", " ", "B", "A", "N", "C", "Á", "R", "I", "O", "S">>,
                 <<"D", "A", "D", "O", "S", " ", "B", "A", "N", "C", "A", "R", "I", "O", "S">> } :
        Contains(upper(text), kw)

\* C27: filter_pages keeps a page exactly when its text contains at least two
\* distinct keywords or one high-priority keyword; an empty page, a page with
\* no keyword and a page with a single non-priority keyword are dropped.
C27_RelevantIffTwoKeywordsOrPriority ==
    orchestration.pc = "filtered" =>
        \A p \in 1..Len(orchestration.ocr_results) :
            (\E k \in 1..Len(orchestration.relevant_pages) :
                 orchestration.relevant_pages[k].page = p)
            <=> LET text == orchestration.ocr_results[p].text
                IN \/ Cardinality(DistinctKeywords(text)) >= 2
                   \/ HasPriorityKeyword(text)

\* the snapshot that the last call, a get_progress, returned
Polled == ret.op = "get_progress" /\ ret.job_id \in DOMAIN jobs

\* C28 as stated: the percent of a snapshot is exactly processed_pages /
\* total_pages * 100 when total_pages is known and positive, 0 when unknown.
C28_PercentExact ==
    Polled =>
        LET job == jobs[ret.job_id]
        IN IF job.total_pages = None THEN ret.value.progress_percent = 0
           ELSE job.total_pages > 0 =>
                   ret.value.progress_percent * job.total_pages
                      = job.processed_pages * 10000

\* C28: get_progress returns none for an unknown id; otherwise its percent is
\* processed_pages / total_pages * 100 rounded to two decimals when total_pages
\* is known and positive, and 0 otherwise; the call changes neither the job
\* table nor the result table.
C28_PercentRounded ==
    [][ret'.op = "get_progress" =>
          /\ jobs' = jobs /\ results' = results
          /\ IF ret'.job_id \notin DOMAIN jobs THEN ret'.value = NoneObj
             ELSE LET job == jobs[ret'.job_id]
                      percent == ret'.value.progress_percent
                  IN /\ ret'.value # NoneObj
                     /\ ret'.value.processed_pages = job.processed_pages
                     /\ ret'.value.total_pages = job.total_pages
                     /\ IF job.total_pages # None /\ job.total_pages > 0
                        THEN LET d == percent * job.total_pages - job.processed_pages * 10000
                             IN 2 * d <= job.total_pages /\ -2 * d <= job.total_pages
                        ELSE percent = 0]_vars

\* C28 witness: created, started with 25 pages, 10 pages done: 40.00 percent
C28_Witness ==
    /\ Polled
    /\ jobs[ret.job_id].total_pages = 25
    /\ jobs[ret.job_id].processed_pages = 10
    /\ ret.value.progress_percent = 4000

\* the step is a call of create_job by a direct caller of the JobManager
CreateCalled == ret'.op = "create_job" /\ calls' = calls + 1

\* C29: create_job with an id not in the job table adds a job with status
\* PENDING, processed_pages 0 and total_pages unknown, and touches no other
\* job; with an id already in the table it raises and leaves the job table and
\* the result table as they were, whatever the status of the existing job.
C29_CreateOnceOrFail ==
    [][CreateCalled =>
          LET j == ret'.job_id
          IN IF j \in DOMAIN jobs
             THEN /\ ret'.raised
                  /\ jobs' = jobs
                  /\ results' = results
             ELSE /\ ~ret'.raised
                  /\ DOMAIN jobs' = DOMAIN jobs \cup {j}
                  /\ jobs'[j].status = PENDING
                  /\ jobs'[j].processed_pages = 0
                  /\ jobs'[j].total_pages = None
                  /\ \A k \in DOMAIN jobs : jobs'[k] = jobs[k]
                  /\ results' = results]_vars

\* C29 witness: a second create_job for a job that is DONE, with its result
\* stored, was refused
C29_Witness ==
    /\ ret.op = "create_job" /\ ret.raised
    /\ ret.job_id \in DOMAIN jobs
    /\ jobs[ret.job_id].status = DONE
    /\ jobs[ret.job_id].total_pages # None
    /\ ret.job_id \in DOMAIN results

\* the step is a call by a direct caller of the JobManager
ManagerCalled == calls' = calls + 1

\* no step but a create_job of that id adds a job, and a result is only ever
\* stored for a job of the table
NeverFabricated ==
    [][ManagerCalled =>
          /\ \A j \in DOMAIN jobs' \ DOMAIN jobs :
                 ret'.op = "create_job" /\ ret'.job_id = j
          /\ \A j \in DOMAIN results' \ DOMAIN results : j \in DOMAIN jobs]_vars

\* C30: start_job, complete_job and fail_job called with an unknown job id each
\* raise to the caller, and no operation other than create_job adds an entry
\* to the job table or the result table for an unknown id.
C30_UnknownIdSignalled ==
    [][ManagerCalled =>
          /\ (/\ ret'.op \in {"start_job", "complete_job", "fail_job"}
              /\ ret'.job_id \notin DOMAIN jobs) => ret'.raised
          /\ \A j \in DOMAIN jobs' \ DOMAIN jobs :
                 ret'.op = "create_job" /\ ret'.job_id = j
          /\ \A j \in DOMAIN results' \ DOMAIN results : j \in DOMAIN jobs]_vars

\* the step is a call of update_progress by a direct caller of the JobManager
UpdateCalled == ret'.op = "update_progress" /\ calls' = calls + 1

\* update_progress on a missing job changes nothing, and on an existing job it
\* changes that job's processed_pages and nothing else
UpdateProgressFrame ==
    [][UpdateCalled =>
          LET j == ret'.job_id
          IN /\ ~ret'.raised
             /\ results' = results
             /\ IF j \notin DOMAIN jobs THEN jobs' = jobs
                ELSE jobs' = [jobs EXCEPT ![j].processed_pages = jobs'[j].processed_pages]]_vars

\* C31: over every sequence of JobManager operations the processed_pages of a
\* job never decreases; update_progress on a missing job is a no-op and on an
\* existing job it changes processed_pages only.
C31_ProgressMonotonic ==
    [][/\ \A j \in DOMAIN jobs \cap DOMAIN jobs' :
             jobs'[j].processed_pages >= jobs[j].processed_pages
       /\ UpdateCalled =>
             LET j == ret'.job_id
             IN /\ ~ret'.raised
                /\ results' = results
                /\ IF j \notin DOMAIN jobs THEN jobs' = jobs
                   ELSE jobs' = [jobs EXCEPT ![j].processed_pages =
                                                 jobs'[j].processed_pages]]_vars

\* the page numbers of a list of page results, in list order
PageNumbers(entries) == [k \in 1..Len(entries) |-> entries[k].page]

StrictlyAscending(s) == \A k \in 1..(Len(s) - 1) : s[k] < s[k + 1]

\* C32: the images are given to OCR one per step in ascending page number, and
\* the list of page results the orchestrator ends with has strictly ascending
\* page numbers, each the real position in the document of the image it was
\* read from, also when pages or batches fail.
C32_PageOrderPreserved ==
    /\ orchestration.pc \in {"batch", "page", "done"} =>
          /\ StrictlyAscending(orchestration.ocrd)
          /\ \A k \in 1..Len(orchestration.ocrd) :
                 orchestration.ocrd[k] \in 1..orchestration.doc_pages
    /\ orchestration.pc = "done" =>
          /\ StrictlyAscending(PageNumbers(orchestration.all_ocr_results))
          /\ PageNumbers(orchestration.all_ocr_results) = orchestration.ocrd

\* C32 witness: the worker ended on a document of three batches whose first
\* batch failed to render and one of whose later pages failed in OCR
C32_Witness ==
    /\ orchestration.pc = "done"
    /\ orchestration.orchestrator = "process_ocr_job"
    /\ Len(orchestration.batches) = 3
    /\ Len(orchestration.all_ocr_results) = orchestration.doc_pages - 10
    /\ orchestration.all_ocr_results[1].page = 11
    /\ \E k \in 1..Len(orchestration.all_ocr_results) :
          orchestration.all_ocr_results[k].error # NoneStr

\* the processing of job j has completed, with success or with failure
Processed(j) == j \in DOMAIN jobs /\ jobs[j].status \in {DONE, ERROR}

\* C33: in every run, after a job has reached DONE or ERROR the file stored
\* for its id is eventually deleted.
C33_UploadDeletedAfterProcessing ==
    \A j \in JobIds : Processed(j) ~> (j \notin files)

\* the stored files are never deleted: the set of files only grows
FilesOnlyGrow == [][files \subseteq files']_vars

\* C34: export_to_file and export_to_bytes raise on an empty collection, and
\* the export endpoint never hands the exporter an empty collection: every
\* stored result with status DONE has records_found = len(items) >= 1, so
\* GET /export never answers 500 for an exporter failure.
C34_ExportOnlyNonEmpty ==
    /\ export_to_file(<<>>).raised
    /\ export_to_bytes(<<>>).raised
    /\ \A j \in DOMAIN results :
          results[j].status = DONE =>
              /\ results[j].records_found = Len(results[j].items)
              /\ Len(results[j].items) >= 1
    /\ response.endpoint = "export" => response.code # 500

\* C34 witness: the export of a stored result of two records was served
C34_Witness ==
    /\ response.endpoint = "export" /\ response.code = 200
    /\ response.job_id \in DOMAIN results
    /\ Len(results[response.job_id].items) = 2

\* C35: at most 2 jobs execute OCR at the same time however many were
\* dispatched; a work item is started only from the head of the pool's queue
\* and only when fewer than 2 are running, and it never waits while a worker
\* is free without being the next to start.
C35_AtMostTwoRunning ==
    [][/\ Cardinality(Running) <= 2
       /\ \A t \in DOMAIN tasks :
             (tasks[t].pc # "running" /\ tasks'[t].pc = "running") =>
                 /\ tasks[t].pc = "submitted"
                 /\ queue # <<>> /\ Head(queue) = t
                 /\ Cardinality(Running) < 2
       /\ \A t \in DOMAIN tasks :
             tasks[t].pc = "submitted" <=> \E i \in 1..Len(queue) : queue[i] = t
       /\ (queue # <<>> /\ Cardinality(Running) < 2) => ENABLED PoolTake]_vars

\* C35 witness: three jobs dispatched, two in OCR and the third waiting
C35_Witness ==
    /\ Cardinality(Running) = 2
    /\ Len(queue) >= 1
    /\ \A t \in Running : tasks[t].job # tasks[Head(queue)].job

\* C36: a job that is DONE through the API pipeline has total_pages equal to
\* the page count of its document (the total_pages of its stored result) and
\* processed_pages equal to total_pages, so get_progress reports 100 percent.
C36_DoneIsHundredPercent ==
    \A j \in DOMAIN jobs :
        jobs[j].status = DONE =>
            /\ j \in DOMAIN results
            /\ jobs[j].total_pages = results[j].total_pages
            /\ jobs[j].processed_pages = jobs[j].total_pages
            /\ get_progress(j).progress_percent = 10000

\* the API pipeline never records a page count or a page processed
PipelineRecordsNoProgress ==
    \A j \in DOMAIN jobs :
        /\ jobs[j].total_pages = None
        /\ jobs[j].processed_pages = 0
        /\ get_progress(j).progress_percent = 0

\* the entry/exit/balance/application/redemption/yield/fee slots of a movement
ValueSlots ==
    {"entrada", "saida", "saldo", "aplicacao", "resgate", "rendimentos",
     "tarifa_paga", "tarifa_devolvida"}

\* the OK values among the values extracted from the page, in order
OkValues(valores_por_campo) ==
    LET IsOk(v) == v.status_validacao = "OK"
    IN SelectSeq(FlatValues(valores_por_campo), IsOk)

\* one movement per OK value, none for a suspect one, each with the page and the
\* original line of its value
MovementProvenance ==
    convenio.pc = "paged" =>
        LET movs == convenio.resultado.movimentacoes
            ok == OkValues(convenio.resultado.valores_raw)
        IN /\ Len(movs) = Len(ok)
           /\ \A k \in 1..Len(movs) :
                 /\ movs[k].origem_documento = ok[k].pagina
                 /\ movs[k].origem_documento = convenio.ocr_result.page
                 /\ movs[k].texto_original = ok[k].linha_original
                 /\ movs[k].descricao_item = ok[k].rotulo

\* C37: every movement built by extract_from_page comes from exactly one OK
\* value (a suspect value yields none), carries the page and the original line
\* of that value, and holds the value in at least one of its slots, for every
\* canonical field of the vocabulary.
C37_MovementHoldsValue ==
    /\ MovementProvenance
    /\ convenio.pc = "paged" =>
          LET movs == convenio.resultado.movimentacoes
              ok == OkValues(convenio.resultado.valores_raw)
          IN \A k \in 1..Len(movs) :
                \E slot \in ValueSlots : movs[k][slot] = ok[k].valor_decimal

\* the records of the non-blank texts that have a bank or both agency and
\* account, in the order of the texts
Eligible(pages_text) ==
    LET NonBlank(t) == Len(strip(t)) > 0
        texts == SelectSeq(pages_text, NonBlank)
        HasData(r) == Truthy(r.banco) \/ (Truthy(r.agencia) /\ Truthy(r.conta))
    IN SelectSeq([k \in 1..Len(texts) |-> extract_all(texts[k])], HasData)

Unkeyed(r) == r.agencia = NoneChars /\ r.conta = NoneChars

SamePair(r, q) == r.agencia = q.agencia /\ r.conta = q.conta

\* the eligible records without the later ones of an (agency, account) pair,
\* records with neither agency nor account all kept
RECURSIVE FirstOfEachPair(_, _)
FirstOfEachPair(records, k) ==
    IF k > Len(records) THEN <<>>
    ELSE (IF Unkeyed(records[k]) \/ ~\E i \in 1..(k - 1) : SamePair(records[i], records[k])
          THEN <<records[k]>> ELSE <<>>)
         \o FirstOfEachPair(records, k + 1)

\* what does hold: the result is the eligible records, in first-occurrence
\* order, without the later ones of a pair, the pair (None, None) included
FirstOfEachKey ==
    extraction.pc = "extracted" =>
        LET records == Eligible(extraction.pages_text)
            Firsts == { k \in 1..Len(records) :
                          ~\E i \in 1..(k - 1) : SamePair(records[i], records[k]) }
            IsFirst(k) == k \in Firsts
        IN extraction.extracted_data
              = [n \in 1..Cardinality(Firsts) |->
                    records[SelectSeq([k \in 1..Len(records) |-> k], IsFirst)[n]]]

\* C38: extract_multiple_records returns, in first-occurrence order, the records
\* that have a bank or both agency and account, no two of them with the same
\* (agency, account) pair, and every record with neither agency nor account is
\* kept instead of being merged with another such record.
C38_UnkeyedRecordsKept ==
    extraction.pc = "extracted" =>
        extraction.extracted_data
           = FirstOfEachPair(Eligible(extraction.pages_text), 1)

TypeOK ==
    /\ DOMAIN jobs \subseteq JobIds
    /\ DOMAIN results \subseteq JobIds
    /\ \A j \in DOMAIN jobs : jobs[j].status \in JobStatus
    /\ now \in 0..MaxClock
====
